---- MODULE Spec2Model ----
(***************************************************************************)
(* Conversation state and form orchestration of rasa:                      *)
(*   - the dialogue state tracker (event log and its applied state),       *)
(*   - the slot mapping resolver and the form action (core/actions/forms), *)
(*   - the interactive-learning client's operations on the server's log.   *)
(***************************************************************************)
EXTENDS Naturals, Sequences, FiniteSets, TLC

VARIABLES
    tracker,    \* the committed tracker of the conversation (events + applied state)
    domain,     \* the domain the form action runs with
    result,     \* what the last call of FormAction.run returned, and on which tracker
    pc,         \* "idle", or "ran" between a run and the logging of its events
    inp,        \* resolver inputs: mappings, message, requested slot, active form
    out,        \* resolver outputs computed from inp
    log,        \* interactive learning: the server's event log of the conversation
    op          \* interactive learning: the last client operation and the log before it

vars == <<tracker, domain, result, pc, inp, out, log, op>>

-----------------------------------------------------------------------------
(* Python values *)

\* Python None where a text is expected (names, intents, roles, groups)
None == "None"
PyTrue == "True"
PyFalse == "False"

\* slot and mapping values: None, a single value, or a list of values
NoneVal == [kind |-> "none", items |-> <<>>]
Scalar(s) == [kind |-> "scalar", items |-> <<s>>]
ListVal(q) == [kind |-> "list", items |-> q]

\* Python truthiness of a value: None, "" and [] are false
Truthy(v) == v.kind # "none" /\ v.items # <<>> /\ v # Scalar("")

InSeq(x, q) == \E i \in 1..Len(q) : q[i] = x

REQUESTED_SLOT == "requested_slot"
ACTION_LISTEN_NAME == "action_listen"

-----------------------------------------------------------------------------
(* Events *)

EmptyMessage == [intent |-> None, entities |-> <<>>, text |-> None]

Ev(type, name, value, parse_data, validate) ==
    [event |-> type, name |-> name, value |-> value,
     parse_data |-> parse_data, validate |-> validate,
     policy |-> None, confidence |-> None]

SlotSet(key, value) == Ev("slot", key, value, EmptyMessage, PyTrue)
Form(name) == Ev("form", name, NoneVal, EmptyMessage, PyTrue)
ActionExecuted(name) == Ev("action", name, NoneVal, EmptyMessage, PyTrue)
ActionExecutedBy(name, policy, confidence) ==
    [ActionExecuted(name) EXCEPT !.policy = policy, !.confidence = confidence]
UserUttered(parse_data) == Ev("user", None, NoneVal, parse_data, PyTrue)
Restarted == Ev("restart", None, NoneVal, EmptyMessage, PyTrue)
FormValidation(validate) == Ev("form_validation", None, NoneVal, EmptyMessage, validate)
ActionExecutionRejected(name) ==
    Ev("action_execution_rejected", name, NoneVal, EmptyMessage, PyTrue)
ActionReverted == Ev("undo", None, NoneVal, EmptyMessage, PyTrue)
UserUtteranceReverted == Ev("rewind", None, NoneVal, EmptyMessage, PyTrue)

-----------------------------------------------------------------------------
(* The dialogue state tracker *)

SlotNames == {"destination", "people", "cuisine", REQUESTED_SLOT}

\* active_form == {}: every key is absent
EmptyForm == [name |-> None, validate |-> None, rejected |-> None]

InitialState ==
    [slots |-> [s \in SlotNames |-> NoneVal],
     active_form |-> EmptyForm,
     latest_action_name |-> None,
     latest_message |-> EmptyMessage]

\* the effect of one event on the applied state
apply(st, e) ==
    CASE e.event = "slot" ->
           IF e.name \in SlotNames
           THEN [st EXCEPT !.slots[e.name] = e.value]
           ELSE st
      [] e.event = "user" -> [st EXCEPT !.latest_message = e.parse_data]
      [] e.event = "action" -> [st EXCEPT !.latest_action_name = e.name]
      [] e.event = "form" ->
           IF e.name # None
           THEN [st EXCEPT !.active_form =
                    [name |-> e.name, validate |-> PyTrue, rejected |-> PyFalse]]
           ELSE [st EXCEPT !.active_form = EmptyForm]
      [] e.event = "form_validation" ->
           [st EXCEPT !.active_form.validate = e.validate]
      [] e.event = "action_execution_rejected" ->
           IF e.name = st.active_form.name /\ e.name # None
           THEN [st EXCEPT !.active_form.rejected = PyTrue]
           ELSE st
      [] e.event = "restart" -> InitialState
      [] OTHER -> st

AppliedState(t) ==
    [slots |-> t.slots, active_form |-> t.active_form,
     latest_action_name |-> t.latest_action_name,
     latest_message |-> t.latest_message]

WithState(evts, st) ==
    [events |-> evts, slots |-> st.slots, active_form |-> st.active_form,
     latest_action_name |-> st.latest_action_name,
     latest_message |-> st.latest_message]

EmptyTracker == WithState(<<>>, InitialState)

\* tracker.update(event): append, then re-derive the cached state incrementally
update(t, e) == WithState(Append(t.events, e), apply(AppliedState(t), e))

RECURSIVE update_all(_, _)
update_all(t, evts) ==
    IF evts = <<>> THEN t ELSE update_all(update(t, Head(evts)), Tail(evts))

\* DialogueStateTracker.from_events: a new tracker, by full replay
from_events(evts) == update_all(EmptyTracker, evts)

RECURSIVE LastRestart(_, _)
LastRestart(evts, i) ==
    IF i = 0 THEN 0
    ELSE IF evts[i].event = "restart" THEN i ELSE LastRestart(evts, i - 1)

\* the events after the most recent Restarted (all of them if there is none)
events_after_latest_restart(t) ==
    SubSeq(t.events, LastRestart(t.events, Len(t.events)) + 1, Len(t.events))

get_slot(t, key) == IF key \in SlotNames THEN t.slots[key] ELSE NoneVal

RECURSIVE MatchingValues(_, _, _, _)
MatchingValues(entities, entity_type, entity_role, entity_group) ==
    IF entities = <<>> THEN <<>>
    ELSE LET x == Head(entities)
             rest == MatchingValues(Tail(entities), entity_type,
                                    entity_role, entity_group)
         IN  IF /\ x.entity = entity_type
                /\ (entity_group = None \/ x.group = entity_group)
                /\ (entity_role = None \/ x.role = entity_role)
             THEN <<x.value>> \o rest
             ELSE rest

\* values of the entities of the latest user message with the given type,
\* filtered by the optional role and group
get_latest_entity_values(t, entity_type, entity_role, entity_group) ==
    MatchingValues(t.latest_message.entities, entity_type, entity_role, entity_group)

-----------------------------------------------------------------------------
(* The form action: slot mappings *)

\* self._form_name
FormName == "restaurant_form"

\* a configured mapping entry that is not a dict
NotADict == "<str>"

Mapping(type, entity, intent, not_intent, role, group, value) ==
    [type |-> type, entity |-> entity, intent |-> intent,
     not_intent |-> not_intent, role |-> role, group |-> group, value |-> value]

\* self._domain before the first run
NoDomain == [is_none |-> TRUE, forms |-> <<>>, action_names |-> {}]

_to_list(x) ==
    IF x.kind = "none" THEN <<>>
    ELSE IF x.kind # "list" THEN <<x.items[1]>>
    ELSE x.items

_list_intents(intent, not_intent) ==
    [raised |-> IF Truthy(intent) /\ Truthy(not_intent) THEN "ValueError" ELSE None,
     intent |-> _to_list(intent),
     not_intent |-> _to_list(not_intent)]

from_entity(entity, intent, not_intent, role, group) ==
    LET l == _list_intents(intent, not_intent)
    IN  [raised |-> l.raised,
         mapping |-> Mapping("from_entity", entity, l.intent, l.not_intent,
                             role, group, NoneVal)]

from_trigger_intent(value, intent, not_intent) ==
    LET l == _list_intents(intent, not_intent)
    IN  [raised |-> l.raised,
         mapping |-> Mapping("from_trigger_intent", None, l.intent, l.not_intent,
                             None, None, value)]

from_intent(value, intent, not_intent) ==
    LET l == _list_intents(intent, not_intent)
    IN  [raised |-> l.raised,
         mapping |-> Mapping("from_intent", None, l.intent, l.not_intent,
                             None, None, value)]

from_text(intent, not_intent) ==
    LET l == _list_intents(intent, not_intent)
    IN  [raised |-> l.raised,
         mapping |-> Mapping("from_text", None, l.intent, l.not_intent,
                             None, None, NoneVal)]

RECURSIVE FirstForm(_, _)
FirstForm(forms, i) ==
    IF i > Len(forms) THEN 0
    ELSE IF forms[i].name = FormName THEN i ELSE FirstForm(forms, i + 1)

\* the form's entry of domain.forms: an ordered dict slot -> mappings ({} if none)
_config(dom) ==
    LET i == FirstForm(dom.forms, 1)
    IN  IF i = 0 THEN <<>> ELSE dom.forms[i].config

slot_mappings(dom) == IF dom.is_none THEN <<>> ELSE _config(dom)

required_slots(dom) ==
    LET c == _config(dom) IN [i \in 1..Len(c) |-> c[i].slot]

RECURSIVE KeyIndex(_, _, _)
KeyIndex(cfg, key, i) ==
    IF i > Len(cfg) THEN 0
    ELSE IF cfg[i].slot = key THEN i ELSE KeyIndex(cfg, key, i + 1)

\* dict.get(key, default) on the ordered dict of slot mappings
DictGet(cfg, key, default) ==
    LET i == KeyIndex(cfg, key, 1)
    IN  IF i = 0 THEN default ELSE cfg[i].mappings

\* faulty variant of get_mappings_for_slot: a slot without configuration has
\* no mapping at all
get_mappings_for_slot_without_default(dom, slot_to_fill) ==
    [raised |-> IF \E i \in 1..Len(_to_list(DictGet(slot_mappings(dom), slot_to_fill,
                                                    ListVal(<<>>)))) :
                        _to_list(DictGet(slot_mappings(dom), slot_to_fill,
                                         ListVal(<<>>)))[i].type \in {NotADict, None}
                THEN "TypeError" ELSE None,
     mappings |-> _to_list(DictGet(slot_mappings(dom), slot_to_fill, ListVal(<<>>)))]

\* faulty variant of get_mappings_for_slot: the entries are not checked when
\* they are looked up
get_mappings_for_slot_unchecked(dom, slot_to_fill) ==
    [raised |-> None,
     mappings |-> _to_list(DictGet(slot_mappings(dom), slot_to_fill,
                                   [kind |-> "dict",
                                    items |-> <<from_entity(slot_to_fill, NoneVal, NoneVal,
                                                            None, None).mapping>>]))]

get_mappings_for_slot(dom, slot_to_fill) ==
    LET requested_slot_mappings ==
            _to_list(DictGet(slot_mappings(dom), slot_to_fill,
                             [kind |-> "dict",
                              items |-> <<from_entity(slot_to_fill, NoneVal, NoneVal,
                                                      None, None).mapping>>]))
        bad == \E i \in 1..Len(requested_slot_mappings) :
                   \/ requested_slot_mappings[i].type = NotADict
                   \/ requested_slot_mappings[i].type = None
    IN  [raised |-> IF bad THEN "TypeError" ELSE None,
         mappings |-> requested_slot_mappings]

\* faulty variant of intent_is_desired: the first alternative tests that the
\* not_intent filter is empty
intent_is_desired_testing_not_intent(requested_slot_mapping, t) ==
    \/ /\ requested_slot_mapping.not_intent = <<>>
       /\ ~InSeq(t.latest_message.intent, requested_slot_mapping.not_intent)
    \/ InSeq(t.latest_message.intent, requested_slot_mapping.intent)

\* faulty variant of intent_is_desired: the not_intent filter is ignored
intent_is_desired_ignoring_not_intent(requested_slot_mapping, t) ==
    \/ requested_slot_mapping.intent = <<>>
    \/ InSeq(t.latest_message.intent, requested_slot_mapping.intent)

intent_is_desired(requested_slot_mapping, t) ==
    LET mapping_intents == requested_slot_mapping.intent
        mapping_not_intents == requested_slot_mapping.not_intent
        intent == t.latest_message.intent
        intent_not_blacklisted ==
            mapping_intents = <<>> /\ ~InSeq(intent, mapping_not_intents)
    IN  intent_not_blacklisted \/ InSeq(intent, mapping_intents)

\* faulty variant of get_entity_value: a single match stays a list
get_entity_value_without_unwrapping(name, t, role, group) ==
    IF Len(get_latest_entity_values(t, name, role, group)) = 0 THEN NoneVal
    ELSE ListVal(get_latest_entity_values(t, name, role, group))

\* the matching entity values of all the user messages among the events
RECURSIVE EntityValuesOfEvents(_, _, _, _)
EntityValuesOfEvents(evts, name, role, group) ==
    IF evts = <<>> THEN <<>>
    ELSE (IF Head(evts).event = "user"
          THEN MatchingValues(Head(evts).parse_data.entities, name, role, group)
          ELSE <<>>)
         \o EntityValuesOfEvents(Tail(evts), name, role, group)

\* faulty variant of get_entity_value: the entities of earlier user messages
\* count as well
get_entity_value_of_any_message(name, t, role, group) ==
    IF Len(EntityValuesOfEvents(t.events, name, role, group)) = 0 THEN NoneVal
    ELSE IF Len(EntityValuesOfEvents(t.events, name, role, group)) = 1
    THEN Scalar(EntityValuesOfEvents(t.events, name, role, group)[1])
    ELSE ListVal(EntityValuesOfEvents(t.events, name, role, group))

get_entity_value(name, t, role, group) ==
    LET value == get_latest_entity_values(t, name, role, group)
    IN  IF Len(value) = 0 THEN NoneVal
        ELSE IF Len(value) = 1 THEN Scalar(value[1])
        ELSE ListVal(value)

entity_is_desired(requested_slot_mapping, slot, t) ==
    LET slot_equals_entity == slot = requested_slot_mapping.entity
        matching_values == get_entity_value(requested_slot_mapping.entity, t,
                                            requested_slot_mapping.role,
                                            requested_slot_mapping.group)
        slot_fulfils_entity_mapping == matching_values # NoneVal
    IN  slot_equals_entity \/ slot_fulfils_entity_mapping

-----------------------------------------------------------------------------
(* The form action: slot extraction *)

\* the text of a slot value used as a dict key or compared with a slot name
SlotKey(v) == IF v.kind = "scalar" THEN v.items[1] ELSE None

\* faulty variant of OtherMappingValue: a trigger mapping fills its slot
\* whether or not the form is active
OtherMappingValueOnEveryRun(other_slot_mapping, slot, t) ==
    IF /\ other_slot_mapping.type = "from_entity"
       /\ intent_is_desired(other_slot_mapping, t)
       /\ entity_is_desired(other_slot_mapping, slot, t)
    THEN get_entity_value(other_slot_mapping.entity, t,
                          other_slot_mapping.role, other_slot_mapping.group)
    ELSE IF /\ other_slot_mapping.type = "from_trigger_intent"
            /\ intent_is_desired(other_slot_mapping, t)
    THEN other_slot_mapping.value
    ELSE NoneVal

\* faulty variant of OtherMappingValue: a slot that is not requested takes the
\* value of an intent or text mapping too, as the requested slot does
OtherMappingValueOfAnyType(other_slot_mapping, slot, t) ==
    IF ~intent_is_desired(other_slot_mapping, t) THEN NoneVal
    ELSE IF other_slot_mapping.type = "from_entity"
    THEN IF entity_is_desired(other_slot_mapping, slot, t)
         THEN get_entity_value(other_slot_mapping.entity, t,
                               other_slot_mapping.role, other_slot_mapping.group)
         ELSE NoneVal
    ELSE IF other_slot_mapping.type = "from_trigger_intent"
    THEN IF t.active_form.name # FormName THEN other_slot_mapping.value ELSE NoneVal
    ELSE IF other_slot_mapping.type = "from_intent" THEN other_slot_mapping.value
    ELSE IF other_slot_mapping.type = "from_text"
    THEN IF t.latest_message.text = None THEN NoneVal
         ELSE Scalar(t.latest_message.text)
    ELSE NoneVal

\* one pass of the loop over the mappings of a slot that is not requested
OtherMappingValue(other_slot_mapping, slot, t) ==
    LET should_fill_entity_slot ==
            /\ other_slot_mapping.type = "from_entity"
            /\ intent_is_desired(other_slot_mapping, t)
            /\ entity_is_desired(other_slot_mapping, slot, t)
        should_fill_trigger_slot ==
            /\ t.active_form.name # FormName
            /\ other_slot_mapping.type = "from_trigger_intent"
            /\ intent_is_desired(other_slot_mapping, t)
    IN  IF should_fill_entity_slot
        THEN get_entity_value(other_slot_mapping.entity, t,
                              other_slot_mapping.role, other_slot_mapping.group)
        ELSE IF should_fill_trigger_slot
        THEN other_slot_mapping.value
        ELSE NoneVal

\* the value of the first mapping, from the i-th on, that gives one
RECURSIVE OtherSlotValue(_, _, _, _)
OtherSlotValue(other_slot_mappings, i, slot, t) ==
    IF i > Len(other_slot_mappings) THEN NoneVal
    ELSE LET value == OtherMappingValue(other_slot_mappings[i], slot, t)
         IN  IF value # NoneVal THEN value
             ELSE OtherSlotValue(other_slot_mappings, i + 1, slot, t)

RECURSIVE OtherSlotsFrom(_, _, _, _)
OtherSlotsFrom(dom, t, slots, i) ==
    IF i > Len(slots) THEN [raised |-> None, values |-> <<>>]
    ELSE LET slot == slots[i]
             rest == OtherSlotsFrom(dom, t, slots, i + 1)
             found == get_mappings_for_slot(dom, slot)
             value == OtherSlotValue(found.mappings, 1, slot, t)
         IN  IF slot = SlotKey(get_slot(t, REQUESTED_SLOT)) THEN rest
             ELSE IF found.raised # None
             THEN [raised |-> found.raised, values |-> <<>>]
             ELSE IF rest.raised # None THEN rest
             ELSE IF value # NoneVal
             THEN [raised |-> None,
                   values |-> <<[slot |-> slot, value |-> value]>> \o rest.values]
             ELSE rest

extract_other_slots(dom, t) == OtherSlotsFrom(dom, t, required_slots(dom), 1)

\* the value one mapping gives for the requested slot
RequestedMappingValue(requested_slot_mapping, t) ==
    CASE requested_slot_mapping.type = "from_entity" ->
           get_entity_value(requested_slot_mapping.entity, t,
                            requested_slot_mapping.role,
                            requested_slot_mapping.group)
      [] requested_slot_mapping.type = "from_intent" -> requested_slot_mapping.value
      [] requested_slot_mapping.type = "from_text" ->
           IF t.latest_message.text = None THEN NoneVal
           ELSE Scalar(t.latest_message.text)
      [] OTHER -> NoneVal

\* faulty variant of RequestedSlotFrom: the loop does not return at the first
\* value, a later mapping that gives one overrides it
RECURSIVE RequestedSlotLastWins(_, _, _, _)
RequestedSlotLastWins(requested_slot_mappings, i, slot_to_fill, t) ==
    IF i > Len(requested_slot_mappings) THEN [raised |-> None, values |-> <<>>]
    ELSE IF ~intent_is_desired(requested_slot_mappings[i], t)
    THEN RequestedSlotLastWins(requested_slot_mappings, i + 1, slot_to_fill, t)
    ELSE IF requested_slot_mappings[i].type = "from_trigger_intent"
    THEN RequestedSlotLastWins(requested_slot_mappings, i + 1, slot_to_fill, t)
    ELSE IF requested_slot_mappings[i].type
                \notin {"from_entity", "from_intent", "from_text"}
    THEN [raised |-> "ValueError", values |-> <<>>]
    ELSE IF RequestedSlotLastWins(requested_slot_mappings, i + 1,
                                  slot_to_fill, t).values # <<>>
    THEN RequestedSlotLastWins(requested_slot_mappings, i + 1, slot_to_fill, t)
    ELSE IF RequestedMappingValue(requested_slot_mappings[i], t) # NoneVal
    THEN [raised |-> None,
          values |-> <<[slot |-> slot_to_fill,
                        value |-> RequestedMappingValue(requested_slot_mappings[i], t)]>>]
    ELSE RequestedSlotLastWins(requested_slot_mappings, i + 1, slot_to_fill, t)

RECURSIVE RequestedSlotFrom(_, _, _, _)
RequestedSlotFrom(requested_slot_mappings, i, slot_to_fill, t) ==
    IF i > Len(requested_slot_mappings) THEN [raised |-> None, values |-> <<>>]
    ELSE LET requested_slot_mapping == requested_slot_mappings[i]
             mapping_type == requested_slot_mapping.type
             next == RequestedSlotFrom(requested_slot_mappings, i + 1, slot_to_fill, t)
             value == RequestedMappingValue(requested_slot_mapping, t)
         IN  IF ~intent_is_desired(requested_slot_mapping, t) THEN next
             ELSE IF mapping_type = "from_trigger_intent" THEN next
             ELSE IF mapping_type \notin {"from_entity", "from_intent", "from_text"}
             THEN [raised |-> "ValueError", values |-> <<>>]
             ELSE IF value # NoneVal
             THEN [raised |-> None,
                   values |-> <<[slot |-> slot_to_fill, value |-> value]>>]
             ELSE next

extract_requested_slot(dom, t) ==
    LET slot_to_fill == SlotKey(get_slot(t, REQUESTED_SLOT))
        found == get_mappings_for_slot(dom, slot_to_fill)
    IN  IF found.raised # None
        THEN [raised |-> found.raised, values |-> <<>>]
        ELSE RequestedSlotFrom(found.mappings, 1, slot_to_fill, t)

\* dict.update: a key already present keeps its place and takes the new value
RECURSIVE DictUpdate(_, _)
DictUpdate(d, more) ==
    IF more = <<>> THEN d
    ELSE LET kv == Head(more)
             at == {i \in 1..Len(d) : d[i].slot = kv.slot}
         IN  DictUpdate(IF at = {} THEN Append(d, kv)
                        ELSE [i \in 1..Len(d) |-> IF i \in at THEN kv ELSE d[i]],
                        Tail(more))

-----------------------------------------------------------------------------
(* The form action: validation, next slot, run *)

\* what the remote validation action may answer to the proposed SlotSet events
RemoteResponses == {"accept", "clear", "cancel", "finish", "nothing"}

\* RemoteAction.run: the events of the action server's response, verbatim
RemoteRun(resp, form_events) ==
    CASE resp = "accept" -> form_events
      [] resp = "clear" ->
           [i \in 1..Len(form_events) |-> SlotSet(form_events[i].name, NoneVal)]
      [] resp = "cancel" -> <<Form(None), SlotSet(REQUESTED_SLOT, NoneVal)>>
      [] resp = "finish" -> form_events \o <<Form(None)>>
      [] OTHER -> <<>>

\* faulty variant of WhatIfEvents: the hypothetical events are left out
WhatIfEventsWithoutNew(t, more) == events_after_latest_restart(t)

\* the events a what-if tracker is replayed from
WhatIfEvents(t, more) == events_after_latest_restart(t) \o more

\* faulty variant of validate_slots: the proposed SlotSet events are applied to
\* the caller's tracker instead of a tracker rebuilt by from_events
validate_slots_in_place(slot_dict, t, dom, resp) ==
    LET validate_name == "action_validate_" \o FormName
        form_events ==
            [i \in 1..Len(slot_dict) |-> SlotSet(slot_dict[i].slot, slot_dict[i].value)]
    IN  IF \/ validate_name \notin dom.action_names
           \/ t.active_form.validate # PyTrue
        THEN [events |-> form_events, delegated |-> FALSE,
              hypothetical |-> EmptyTracker, given |-> t]
        ELSE [events |-> RemoteRun(resp, form_events), delegated |-> TRUE,
              hypothetical |-> update_all(t, form_events),
              given |-> update_all(t, form_events)]

\* faulty variant of validate_slots: the remote action is called unless the
\* validate flag is False
validate_slots_unless_disabled(slot_dict, t, dom, resp) ==
    IF \/ ("action_validate_" \o FormName) \notin dom.action_names
       \/ t.active_form.validate = PyFalse
    THEN [events |-> [i \in 1..Len(slot_dict) |->
                         SlotSet(slot_dict[i].slot, slot_dict[i].value)],
          delegated |-> FALSE, hypothetical |-> EmptyTracker, given |-> t]
    ELSE [events |-> RemoteRun(resp, [i \in 1..Len(slot_dict) |->
                         SlotSet(slot_dict[i].slot, slot_dict[i].value)]),
          delegated |-> TRUE,
          hypothetical |-> from_events(WhatIfEvents(t,
                              [i \in 1..Len(slot_dict) |->
                                  SlotSet(slot_dict[i].slot, slot_dict[i].value)])),
          given |-> t]

\* returns the events, the tracker handed to the remote action (if any) and the
\* caller's tracker as the call leaves it
validate_slots(slot_dict, t, dom, resp) ==
    LET validate_name == "action_validate_" \o FormName
        form_events ==
            [i \in 1..Len(slot_dict) |-> SlotSet(slot_dict[i].slot, slot_dict[i].value)]
        hypothetical == from_events(WhatIfEvents(t, form_events))
    IN  IF \/ validate_name \notin dom.action_names
           \/ t.active_form.validate # PyTrue
        THEN [events |-> form_events, delegated |-> FALSE,
              hypothetical |-> EmptyTracker, given |-> t]
        ELSE [events |-> RemoteRun(resp, form_events), delegated |-> TRUE,
              hypothetical |-> hypothetical, given |-> t]

NoValidation(t) ==
    [raised |-> None, events |-> <<>>, slot_values |-> <<>>, delegated |-> FALSE,
     hypothetical |-> EmptyTracker, given |-> t]

Raised(t, error) == [NoValidation(t) EXCEPT !.raised = error]

\* the end of validate: the extracted values go through validate_slots
Validated(slot_values, validated) ==
    [raised |-> None, events |-> validated.events,
     slot_values |-> slot_values, delegated |-> validated.delegated,
     hypothetical |-> validated.hypothetical, given |-> validated.given]

\* faulty variant of ValidateExtracted: the run is rejected as soon as the
\* requested slot got no value, whatever the other slots got
ValidateExtractedForRequested(t, dom, resp, other, requested, slot_to_fill) ==
    IF other.raised # None THEN Raised(t, other.raised)
    ELSE IF ~Truthy(slot_to_fill)
    THEN Validated(other.values, validate_slots(other.values, t, dom, resp))
    ELSE IF requested.raised # None THEN Raised(t, requested.raised)
    ELSE IF requested.values = <<>>
    THEN Raised(t, "ActionExecutionRejection")
    ELSE Validated(DictUpdate(other.values, requested.values),
                   validate_slots(DictUpdate(other.values, requested.values),
                                  t, dom, resp))

\* validate, given what extract_other_slots and extract_requested_slot return
ValidateExtracted(t, dom, resp, other, requested, slot_to_fill) ==
    IF other.raised # None THEN Raised(t, other.raised)
    ELSE IF ~Truthy(slot_to_fill)
    THEN Validated(other.values, validate_slots(other.values, t, dom, resp))
    ELSE IF requested.raised # None THEN Raised(t, requested.raised)
    ELSE IF DictUpdate(other.values, requested.values) = <<>>
    THEN Raised(t, "ActionExecutionRejection")
    ELSE Validated(DictUpdate(other.values, requested.values),
                   validate_slots(DictUpdate(other.values, requested.values),
                                  t, dom, resp))

validate(t, dom, resp) ==
    ValidateExtracted(t, dom, resp, extract_other_slots(dom, t),
                      extract_requested_slot(dom, t), get_slot(t, REQUESTED_SLOT))

\* faulty variant of _should_request_slot: a slot is requested whether it has
\* a value or not
_should_request_slot_always(t, slot_name) == TRUE

_should_request_slot(t, slot_name) == get_slot(t, slot_name) = NoneVal

\* faulty variant of NextSlotFrom: the loop does not return at the first
\* unset slot, the last unset slot is requested
RECURSIVE NextSlotFromLast(_, _, _)
NextSlotFromLast(t, slots, i) ==
    IF i > Len(slots) THEN [found |-> FALSE, events |-> <<>>]
    ELSE IF NextSlotFromLast(t, slots, i + 1).found
    THEN NextSlotFromLast(t, slots, i + 1)
    ELSE IF _should_request_slot(t, slots[i])
    THEN [found |-> TRUE, events |-> <<SlotSet(REQUESTED_SLOT, Scalar(slots[i]))>>]
    ELSE [found |-> FALSE, events |-> <<>>]

RECURSIVE NextSlotFrom(_, _, _)
NextSlotFrom(t, slots, i) ==
    IF i > Len(slots) THEN [found |-> FALSE, events |-> <<>>]
    ELSE IF _should_request_slot(t, slots[i])
    THEN [found |-> TRUE, events |-> <<SlotSet(REQUESTED_SLOT, Scalar(slots[i]))>>]
    ELSE NextSlotFrom(t, slots, i + 1)

\* found = FALSE stands for the return value None
request_next_slot(t, dom) == NextSlotFrom(t, required_slots(dom), 1)

\* faulty variant of deactivate: the requested slot is not reset
deactivate_without_reset == <<Form(None)>>

deactivate == <<Form(None), SlotSet(REQUESTED_SLOT, NoneVal)>>

\* the required slots that are already set, with their values
PrefilledSlots(t, slots) ==
    [i \in 1..Len(slots) |-> [slot |-> slots[i], value |-> get_slot(t, slots[i])]]

\* faulty variant of Activated: the form is not activated when pre-filled
\* slots were validated
ActivatedWithoutForm(validated) == validated

Activated(validated) ==
    [validated EXCEPT !.events = <<Form(FormName)>> \o validated.events]

_activate_if_required(t, dom, resp) ==
    IF t.active_form.name = FormName
    THEN [events |-> <<>>, delegated |-> FALSE,
          hypothetical |-> EmptyTracker, given |-> t]
    ELSE IF SelectSeq(required_slots(dom),
                      LAMBDA slot_name : ~_should_request_slot(t, slot_name)) # <<>>
    THEN Activated(validate_slots(
             PrefilledSlots(t, SelectSeq(required_slots(dom),
                 LAMBDA slot_name : ~_should_request_slot(t, slot_name))),
             t, dom, resp))
    ELSE [events |-> <<Form(FormName)>>, delegated |-> FALSE,
          hypothetical |-> EmptyTracker, given |-> t]

\* faulty variant of _validate_if_required: validation also requires the form
\* to be active already
_validate_if_required_when_active(t, dom, resp) ==
    IF /\ t.active_form.name = FormName
       /\ t.latest_action_name = ACTION_LISTEN_NAME
       /\ t.active_form.validate # PyFalse
    THEN validate(t, dom, resp)
    ELSE NoValidation(t)

\* faulty variant of _validate_if_required: the validate flag is read without
\* a default, a missing flag counts as validation switched off
_validate_if_required_without_default(t, dom, resp) ==
    IF /\ t.latest_action_name = ACTION_LISTEN_NAME
       /\ t.active_form.validate = PyTrue
    THEN validate(t, dom, resp)
    ELSE NoValidation(t)

_validate_if_required(t, dom, resp) ==
    IF /\ t.latest_action_name = ACTION_LISTEN_NAME
       /\ t.active_form.validate # PyFalse
    THEN validate(t, dom, resp)
    ELSE NoValidation(t)

\* what run returns, with the intermediate results it is made of
RunResult(raised, events, activation, validation, decided, temp_tracker) ==
    [raised |-> raised, events |-> events,
     activation_events |-> activation.events,
     validation_events |-> validation.events,
     slot_values |-> validation.slot_values,
     activation |-> [delegated |-> activation.delegated,
                     hypothetical |-> activation.hypothetical],
     validation |-> [delegated |-> validation.delegated,
                     hypothetical |-> validation.hypothetical],
     decided |-> decided,
     temp_tracker |-> temp_tracker,
     given |-> validation.given]

\* faulty variant of RunNextSlot: the activation events are returned also
\* when the form is submitted
RunNextSlotWithActivation(activation, validation, temp_tracker, next_slot_events) ==
    IF next_slot_events.found
    THEN RunResult(None,
                   activation.events \o validation.events \o next_slot_events.events,
                   activation, validation, TRUE, temp_tracker)
    ELSE RunResult(None, activation.events \o validation.events \o deactivate,
                   activation, validation, TRUE, temp_tracker)

\* faulty variant of RunNextSlot: the event requesting the next slot is put
\* in front of the validation events
RunNextSlotBeforeValidation(activation, validation, temp_tracker, next_slot_events) ==
    IF next_slot_events.found
    THEN RunResult(None,
                   activation.events \o next_slot_events.events \o validation.events,
                   activation, validation, TRUE, temp_tracker)
    ELSE RunResult(None, validation.events \o deactivate,
                   activation, validation, TRUE, temp_tracker)

\* faulty variant of RunNextSlot: when the form is submitted, the SlotSet
\* events of the pre-filled slots are returned, Form(<form name>) is not
RunNextSlotKeepingPrefilled(activation, validation, temp_tracker, next_slot_events) ==
    IF next_slot_events.found
    THEN RunResult(None,
                   activation.events \o validation.events \o next_slot_events.events,
                   activation, validation, TRUE, temp_tracker)
    ELSE RunResult(None,
                   SelectSeq(activation.events, LAMBDA e : e.event = "slot")
                       \o validation.events \o deactivate,
                   activation, validation, TRUE, temp_tracker)

\* the end of run: request the next slot or submit and deactivate
RunNextSlot(activation, validation, temp_tracker, next_slot_events) ==
    IF next_slot_events.found
    THEN RunResult(None,
                   activation.events \o validation.events \o next_slot_events.events,
                   activation, validation, TRUE, temp_tracker)
    ELSE RunResult(None, validation.events \o deactivate,
                   activation, validation, TRUE, temp_tracker)

RunTempTracker(self_domain, activation, validation, temp_tracker) ==
    RunNextSlot(activation, validation, temp_tracker,
                request_next_slot(temp_tracker, self_domain))

\* faulty variant of RunValidated: the next slot is selected, or the form
\* submitted, even when validation deactivated the form
RunValidatedRegardless(self_domain, activation, validation) ==
    IF validation.raised # None
    THEN RunResult(validation.raised, <<>>, activation, validation, FALSE, EmptyTracker)
    ELSE RunTempTracker(self_domain, activation, validation,
                        from_events(WhatIfEvents(validation.given, validation.events)))

\* faulty variant of RunValidated: the events collected before the rejection
\* are handed over together with it
RunValidatedKeepingActivation(self_domain, activation, validation) ==
    IF validation.raised # None
    THEN RunResult(validation.raised, activation.events,
                   activation, validation, FALSE, EmptyTracker)
    ELSE IF InSeq(Form(None), validation.events)
    THEN RunResult(None, validation.events, activation, validation, FALSE, EmptyTracker)
    ELSE RunTempTracker(self_domain, activation, validation,
                        from_events(WhatIfEvents(validation.given, validation.events)))

RunValidated(self_domain, activation, validation) ==
    IF validation.raised # None
    THEN RunResult(validation.raised, <<>>, activation, validation, FALSE, EmptyTracker)
    ELSE IF InSeq(Form(None), validation.events)
    THEN RunResult(None, validation.events, activation, validation, FALSE, EmptyTracker)
    ELSE RunTempTracker(self_domain, activation, validation,
                        from_events(WhatIfEvents(validation.given, validation.events)))

RunActivated(dom, resp_v, activation) ==
    RunValidated(dom, activation, _validate_if_required(activation.given, dom, resp_v))

\* FormAction.run on tracker t; resp_a and resp_v are the answers of the remote
\* validation action, should activation or validation call it
run(t, dom, resp_a, resp_v) ==
    RunActivated(dom, resp_v, _activate_if_required(t, dom, resp_a))

-----------------------------------------------------------------------------
(* Specification Spec: one conversation, its tracker and the form action *)

\* bounds of the model
MaxEvents == 9
MaxExternal == 1
MaxMessages == 2

Entity(entity, value, role, group) ==
    [entity |-> entity, value |-> value, role |-> role, group |-> group]

Message(intent, entities, text) ==
    [intent |-> intent, entities |-> entities, text |-> text]

ValidateName == "action_validate_" \o FormName

\* destination: the trigger intent greet gives "home" on activation, else entity city
\* people: entity people under intent inform, else "1" under intent affirm
RestaurantForm ==
    [name |-> FormName,
     config |-> <<
        [slot |-> "destination",
         mappings |-> ListVal(<<
            Mapping("from_trigger_intent", None, <<"greet">>, <<>>, None, None,
                    Scalar("home")),
            Mapping("from_entity", "city", <<>>, <<>>, None, None, NoneVal)>>)],
        [slot |-> "people",
         mappings |-> ListVal(<<
            Mapping("from_entity", "people", <<"inform">>, <<>>, None, None, NoneVal),
            Mapping("from_intent", None, <<"affirm">>, <<>>, None, None,
                    Scalar("1"))>>)]>>]

OtherForm == [name |-> "other_form", config |-> <<>>]

Domains ==
    {[is_none |-> FALSE, forms |-> <<OtherForm, RestaurantForm>>, action_names |-> names] :
        names \in {{ACTION_LISTEN_NAME, FormName},
                   {ACTION_LISTEN_NAME, FormName, ValidateName}}}

UserMessages ==
    {Message("greet", <<>>, "hello"),
     Message("inform", <<Entity("city", "Paris", None, None)>>, "to Paris"),
     Message("inform", <<Entity("people", "2", None, None)>>, "for two"),
     Message("affirm", <<>>, "yes")}

\* events of other authorities: the engine restarting the conversation, another
\* action filling a slot, a policy switching the validation off
ExternalEvents ==
    {Restarted, SlotSet("destination", Scalar("Rome")), FormValidation(PyFalse)}

NoResult ==
    [raised |-> None, events |-> <<>>, activation_events |-> <<>>,
     validation_events |-> <<>>, slot_values |-> <<>>,
     activation |-> [delegated |-> FALSE, hypothetical |-> EmptyTracker],
     validation |-> [delegated |-> FALSE, hypothetical |-> EmptyTracker],
     decided |-> FALSE, temp_tracker |-> EmptyTracker, given |-> EmptyTracker,
     before |-> EmptyTracker]

NoInput == [kind |-> "none"]
NoOp == [kind |-> "none"]

NumberOf(evts, event_type) ==
    Cardinality({i \in 1..Len(evts) : evts[i].event = event_type})

Externals(evts) ==
    NumberOf(evts, "restart") + NumberOf(evts, "form_validation")
        + Cardinality({i \in 1..Len(evts) :
                          evts[i] = SlotSet("destination", Scalar("Rome"))})

\* a conversation in which another form is active and has filled a slot
HandedOverTracker ==
    from_events(<<Form(OtherForm.name), SlotSet("destination", Scalar("Rome"))>>)

\* a new conversation, or one that another form has been working on
Init ==
    /\ tracker \in {EmptyTracker, HandedOverTracker}
    /\ domain \in Domains
    /\ result = NoResult
    /\ pc = "idle"
    /\ inp = NoInput
    /\ out = NoInput
    /\ log = <<>>
    /\ op = NoOp

\* the engine executes action_listen
Listen ==
    /\ pc = "idle"
    /\ Len(tracker.events) < MaxEvents
    /\ tracker.latest_action_name # ACTION_LISTEN_NAME
    /\ tracker' = update(tracker, ActionExecuted(ACTION_LISTEN_NAME))
    /\ UNCHANGED <<domain, result, pc, inp, out, log, op>>

\* a user message arrives while the bot listens
UserMessage(m) ==
    /\ pc = "idle"
    /\ Len(tracker.events) < MaxEvents
    /\ tracker.events # <<>>
    /\ tracker.events[Len(tracker.events)] = ActionExecuted(ACTION_LISTEN_NAME)
    /\ NumberOf(tracker.events, "user") < MaxMessages
    /\ tracker' = update(tracker, UserUttered(m))
    /\ UNCHANGED <<domain, result, pc, inp, out, log, op>>

\* another authority appends an event
External(e) ==
    /\ pc = "idle"
    /\ Len(tracker.events) < MaxEvents
    /\ Externals(tracker.events) < MaxExternal
    /\ tracker' = update(tracker, e)
    /\ UNCHANGED <<domain, result, pc, inp, out, log, op>>

\* the engine calls FormAction.run on the committed tracker
RunReturns(r) ==
    /\ Len(tracker.events) < MaxEvents
    /\ result' = [r EXCEPT !.before = tracker]
    /\ tracker' = r.given

Run(resp_a, resp_v) ==
    /\ pc = "idle"
    /\ RunReturns([before |-> tracker] @@ run(tracker, domain, resp_a, resp_v))
    /\ pc' = "ran"
    /\ UNCHANGED <<domain, inp, out, log, op>>

\* the engine logs the executed action and the events it returned; a rejected
\* run is logged as ActionExecutionRejected
LogRun ==
    /\ pc = "ran"
    /\ tracker' =
         IF result.raised = None
         THEN update_all(tracker, <<ActionExecuted(FormName)>> \o result.events)
         ELSE update(tracker, ActionExecutionRejected(FormName))
    /\ pc' = "idle"
    /\ UNCHANGED <<domain, result, inp, out, log, op>>

Next ==
    \/ Listen
    \/ \E m \in UserMessages : UserMessage(m)
    \/ \E e \in ExternalEvents : External(e)
    \/ \E resp_a \in RemoteResponses, resp_v \in RemoteResponses : Run(resp_a, resp_v)
    \/ LogRun

Spec == Init /\ [][Next]_vars

-----------------------------------------------------------------------------
(* Specification SpecResolve: the slot mapping resolver on one user message *)

\* bound of the model: the number of mappings declared for one slot
MaxMappings == 2

MappingChoices ==
    {Mapping("from_entity", "city", <<>>, <<>>, None, None, NoneVal),
     Mapping("from_entity", "city", <<>>, <<>>, "to", None, NoneVal),
     Mapping("from_entity", "city", <<"inform">>, <<>>, None, None, NoneVal),
     Mapping("from_entity", "city", <<>>, <<"greet">>, None, None, NoneVal),
     Mapping("from_entity", "city", <<"greet">>, <<"inform">>, None, None, NoneVal),
     Mapping("from_intent", None, <<"greet">>, <<>>, None, None, Scalar("nowhere")),
     Mapping("from_text", None, <<>>, <<"greet">>, None, None, NoneVal),
     Mapping("from_trigger_intent", None, <<>>, <<>>, None, None, Scalar("home"))}

MappingLists ==
    UNION {[1..n -> MappingChoices] : n \in 0..MaxMappings}

ResolveMessages ==
    {Message("greet", <<>>, "hello"),
     Message("inform", <<Entity("city", "Paris", None, None)>>, "to Paris"),
     Message("inform", <<Entity("city", "Paris", "from", None),
                         Entity("city", "Rome", "to", None)>>, "Paris to Rome"),
     Message("greet", <<Entity("city", "Rome", None, None)>>, "hello Rome"),
     Message("inform", <<Entity("cuisine", "thai", None, None),
                         Entity("city", "Oslo", None, None),
                         Entity("city", "Bern", None, None)>>, "thai in Oslo or Bern"),
     Message(None, <<>>, "hm")}

\* the form of the resolver runs: destination has the mappings under test,
\* people has one entity mapping, cuisine is not configured
ResolveConfig(mappings) ==
    <<[slot |-> "destination", mappings |-> mappings],
      [slot |-> "people",
       mappings |-> ListVal(<<Mapping("from_entity", "people", <<>>, <<>>,
                                      None, None, NoneVal)>>)]>>

ResolveDomainOf(config) ==
    [is_none |-> FALSE,
     forms |-> <<[name |-> FormName, config |-> config]>>,
     action_names |-> {ACTION_LISTEN_NAME, FormName}]

\* the entries configured for the slot people: the entity mapping, or entries
\* among which one is not a dict or has no type
PeopleEntries ==
    {<<Mapping("from_entity", "people", <<>>, <<>>, None, None, NoneVal)>>,
     <<Mapping("from_text", None, <<>>, <<>>, None, None, NoneVal),
       Mapping(NotADict, None, <<>>, <<>>, None, None, NoneVal)>>,
     <<Mapping(None, "people", <<>>, <<>>, None, None, NoneVal)>>}

\* the configured value is the list, or the bare dict when it has one mapping
ResolveDomain(i) ==
    ResolveDomainOf(
        [ResolveConfig(IF i.bare THEN [kind |-> "dict", items |-> i.mappings]
                       ELSE ListVal(i.mappings))
            EXCEPT ![2].mappings = ListVal(i.people)])

\* the tracker of the resolver runs: the slot requested, the form activated (or
\* not), the bot listening, then the user message
ResolveTracker(i) ==
    from_events((IF i.requested = None THEN <<>>
                 ELSE <<SlotSet(REQUESTED_SLOT, Scalar(i.requested))>>)
                \o (IF i.active = None THEN <<>> ELSE <<Form(i.active)>>)
                \o <<ActionExecuted(ACTION_LISTEN_NAME), UserUttered(i.message)>>)

InitResolve ==
    /\ tracker = EmptyTracker
    /\ domain = NoDomain
    /\ result = NoResult
    /\ pc = "idle"
    /\ \E mappings \in MappingLists, message \in ResolveMessages,
          requested \in {None, "destination", "cuisine", "people"},
          active \in {None, FormName},
          bare \in BOOLEAN,
          people \in PeopleEntries :
            /\ bare => Len(mappings) = 1
            /\ (people[1].type # "from_entity" \/ requested = "people")
                  => Len(mappings) <= 1 /\ ~bare
            /\ inp = [mappings |-> mappings, message |-> message,
                      requested |-> requested, active |-> active, bare |-> bare,
                      people |-> people]
    /\ out = NoInput
    /\ log = <<>>
    /\ op = NoOp

IntentIsDesired(i) ==
    /\ i \in 1..Len(inp.mappings)
    /\ out' = [kind |-> "intent", mapping |-> inp.mappings[i],
               desired |-> intent_is_desired(inp.mappings[i], ResolveTracker(inp))]
    /\ UNCHANGED <<tracker, domain, result, pc, inp, log, op>>

GetEntityValue(i) ==
    /\ i \in 1..Len(inp.mappings)
    /\ inp.mappings[i].type = "from_entity"
    /\ out' = [kind |-> "entity", mapping |-> inp.mappings[i],
               value |-> get_entity_value(inp.mappings[i].entity, ResolveTracker(inp),
                                          inp.mappings[i].role, inp.mappings[i].group)]
    /\ UNCHANGED <<tracker, domain, result, pc, inp, log, op>>

ExtractRequestedSlot ==
    /\ inp.requested # None
    /\ out' = [kind |-> "requested"]
                @@ extract_requested_slot(ResolveDomain(inp), ResolveTracker(inp))
    /\ UNCHANGED <<tracker, domain, result, pc, inp, log, op>>

ExtractOtherSlots ==
    /\ out' = [kind |-> "other"]
                @@ extract_other_slots(ResolveDomain(inp), ResolveTracker(inp))
    /\ UNCHANGED <<tracker, domain, result, pc, inp, log, op>>

\* validate on the message; the domain lists no validation action, so the
\* extracted values are returned as SlotSet events
ValidateMessage ==
    /\ out' = [kind |-> "validated",
               raised |-> validate(ResolveTracker(inp), ResolveDomain(inp), "accept").raised,
               events |-> validate(ResolveTracker(inp), ResolveDomain(inp), "accept").events,
               slot_values |->
                   validate(ResolveTracker(inp), ResolveDomain(inp), "accept").slot_values]
    /\ UNCHANGED <<tracker, domain, result, pc, inp, log, op>>

NextResolve ==
    \/ \E i \in 1..MaxMappings : IntentIsDesired(i)
    \/ \E i \in 1..MaxMappings : GetEntityValue(i)
    \/ ExtractRequestedSlot
    \/ ExtractOtherSlots
    \/ ValidateMessage

SpecResolve == InitResolve /\ [][NextResolve]_vars

-----------------------------------------------------------------------------
(* Specification SpecInteractive: the interactive-learning client and the *)
(* event log the server keeps for the conversation                        *)

\* bound of the model: the length of the server's event log
MaxLog == 5

InteractiveMessages ==
    {Message("greet", <<>>, "hello"),
     Message("inform", <<Entity("city", "Paris", None, None)>>, "to Paris")}

\* what the user may correct the latest message's NLU result to
CorrectedIntents == {"greet", "inform"}

InteractiveActions == {ACTION_LISTEN_NAME, "utter_greet"}

\* the policy and the confidence of a predicted action; None for an action the
\* user chose
Predictions == {[policy |-> None, confidence |-> None],
                [policy |-> "policy_1_MemoizationPolicy", confidence |-> "1.0"]}

\* retrieve_tracker with EventVerbosity.ALL and EventVerbosity.AFTER_RESTART
RetrieveAll(events) == events
RetrieveAfterRestart(events) ==
    SubSeq(events, LastRestart(events, Len(events)) + 1, Len(events))

\* send_event: the server appends the event, or the list of events, to the log
send_event(events, evt) == events \o evt

\* faulty variant of LastEventType: the backward scan does not stop at a
\* Restarted event
RECURSIVE LastEventTypeThroughRestart(_, _, _)
LastEventTypeThroughRestart(events, i, last_event_type) ==
    IF i = 0 THEN last_event_type
    ELSE IF events[i].event \in {"action", "user"} THEN events[i].event
    ELSE LastEventTypeThroughRestart(events, i - 1, events[i].event)

\* the type of the event the backward scan of _undo_latest stops at
RECURSIVE LastEventType(_, _, _)
LastEventType(events, i, last_event_type) ==
    IF i = 0 THEN last_event_type
    ELSE IF events[i].event \in {"action", "user"} THEN events[i].event
    ELSE IF events[i].event = "restart" THEN events[i].event
    ELSE LastEventType(events, i - 1, events[i].event)

\* faulty variant of UndoEvents: the user message is reverted without
\* replaying action_listen
UndoEventsWithoutListen(events) ==
    IF LastEventType(events, Len(events), None) = "action" THEN <<ActionReverted>>
    ELSE IF LastEventType(events, Len(events), None) = "user"
    THEN <<UserUtteranceReverted>>
    ELSE <<>>

\* the events _undo_latest sends, given the events of the retrieved tracker
UndoEvents(events) ==
    IF LastEventType(events, Len(events), None) = "action" THEN <<ActionReverted>>
    ELSE IF LastEventType(events, Len(events), None) = "user"
    THEN <<UserUtteranceReverted, ActionExecuted(ACTION_LISTEN_NAME)>>
    ELSE <<>>

_undo_latest(events) == send_event(events, UndoEvents(RetrieveAll(events)))

\* the index of the most recent user message, 0 if there is none
RECURSIVE latest_user_message(_, _)
latest_user_message(events, i) ==
    IF i = 0 THEN 0
    ELSE IF events[i].event = "user" THEN i
    ELSE latest_user_message(events, i - 1)

\* the events _correct_wrong_nlu sends, or the exception it raises, given the
\* events _validate_nlu retrieved
CorrectionEvents(corrected_nlu, events) ==
    IF latest_user_message(events, Len(events)) = 0
    THEN [raised |-> "Exception", events |-> <<>>]
    ELSE [raised |-> None,
          events |-> <<UserUtteranceReverted,
                       ActionExecuted(ACTION_LISTEN_NAME),
                       [events[latest_user_message(events, Len(events))]
                           EXCEPT !.parse_data = corrected_nlu]>>]

_correct_wrong_nlu(corrected_nlu, events) ==
    send_event(events, CorrectionEvents(corrected_nlu, RetrieveAfterRestart(events)).events)

\* the NLU result _validate_nlu builds from the user's corrections
CorrectedNlu(events, intent, entities) ==
    Message(intent, entities,
            IF latest_user_message(RetrieveAfterRestart(events),
                                   Len(RetrieveAfterRestart(events))) = 0
            THEN None
            ELSE RetrieveAfterRestart(events)[
                     latest_user_message(RetrieveAfterRestart(events),
                                         Len(RetrieveAfterRestart(events)))].parse_data.text)

InitInteractive ==
    /\ tracker = EmptyTracker
    /\ domain = NoDomain
    /\ result = NoResult
    /\ pc = "idle"
    /\ inp = NoInput
    /\ out = NoInput
    /\ log = <<>>
    /\ op = [kind |-> "none", before |-> <<>>, raised |-> None]

\* _enter_user_message: the server logs the message
EnterUserMessage(m) ==
    /\ pc = "idle"
    /\ Len(log) < MaxLog
    /\ log' = send_event(log, <<UserUttered(m)>>)
    /\ op' = [kind |-> "message", before |-> log, raised |-> None]
    /\ UNCHANGED <<tracker, domain, result, pc, inp, out>>

\* faulty variant of send_action: a failed request is downgraded for every
\* action, new or not
send_action_always_downgraded(events, action_name, policy, confidence, is_new_action, fails) ==
    IF ~fails
    THEN [raised |-> None, requests |-> <<"execute">>,
          events |-> events \o <<ActionExecutedBy(action_name, policy, confidence)>>]
    ELSE [raised |-> None, requests |-> <<"execute", "tracker/events">>,
          events |-> send_event(events, <<ActionExecuted(action_name)>>)]

\* faulty variant of send_action: a failed execute request is sent once more
send_action_retrying(events, action_name, policy, confidence, is_new_action, fails) ==
    IF ~fails
    THEN [raised |-> None, requests |-> <<"execute">>,
          events |-> events \o <<ActionExecutedBy(action_name, policy, confidence)>>]
    ELSE IF is_new_action
    THEN [raised |-> None, requests |-> <<"execute", "execute", "tracker/events">>,
          events |-> send_event(events, <<ActionExecuted(action_name)>>)]
    ELSE [raised |-> "ClientError", requests |-> <<"execute", "execute">>,
          events |-> events]

\* send_action: the server executes the action and logs it with the policy and
\* the confidence of the request; fails stands for a ClientError of the request;
\* requests are the subpaths of the requests the call sends, in order
send_action(events, action_name, policy, confidence, is_new_action, fails) ==
    IF ~fails
    THEN [raised |-> None, requests |-> <<"execute">>,
          events |-> events \o <<ActionExecutedBy(action_name, policy, confidence)>>]
    ELSE IF is_new_action
    THEN [raised |-> None, requests |-> <<"execute", "tracker/events">>,
          events |-> send_event(events, <<ActionExecuted(action_name)>>)]
    ELSE [raised |-> "ClientError", requests |-> <<"execute">>, events |-> events]

\* the session goes on unless the operation raised
AfterOperation(raised) == IF raised = None THEN "idle" ELSE "failed"

\* _validate_action: a confirmed prediction is sent with its policy and
\* confidence, an action the user chose without them and possibly as new
SendAction(action_name, prediction, is_new_action, fails) ==
    /\ pc = "idle"
    /\ Len(log) < MaxLog
    /\ is_new_action => prediction.policy = None
    /\ log' = send_action(log, action_name, prediction.policy, prediction.confidence,
                          is_new_action, fails).events
    /\ op' = [kind |-> "action", before |-> log,
              raised |-> send_action(log, action_name, prediction.policy,
                                     prediction.confidence, is_new_action, fails).raised,
              name |-> action_name, is_new_action |-> is_new_action, fails |-> fails,
              requests |-> send_action(log, action_name, prediction.policy,
                                       prediction.confidence, is_new_action,
                                       fails).requests]
    /\ pc' = AfterOperation(send_action(log, action_name, prediction.policy,
                                        prediction.confidence, is_new_action,
                                        fails).raised)
    /\ UNCHANGED <<tracker, domain, result, inp, out>>

\* the applied events of the conversation: what is left of the log once
\* restarts and reverting events have taken effect
RECURSIVE undo_till_previous(_, _)
undo_till_previous(event_type, applied) ==
    IF applied = <<>> THEN <<>>
    ELSE IF applied[Len(applied)].event = event_type
    THEN SubSeq(applied, 1, Len(applied) - 1)
    ELSE undo_till_previous(event_type, SubSeq(applied, 1, Len(applied) - 1))

RECURSIVE AppliedFrom(_, _, _)
AppliedFrom(events, i, applied) ==
    IF i > Len(events) THEN applied
    ELSE IF events[i].event = "restart" THEN AppliedFrom(events, i + 1, <<>>)
    ELSE IF events[i].event = "undo"
    THEN AppliedFrom(events, i + 1, undo_till_previous("action", applied))
    ELSE IF events[i].event = "rewind"
    THEN AppliedFrom(events, i + 1, undo_till_previous("user", applied))
    ELSE AppliedFrom(events, i + 1, Append(applied, events[i]))

\* retrieve_tracker with EventVerbosity.APPLIED
RetrieveApplied(events) == AppliedFrom(events, 1, <<>>)

\* the backward scan of is_listening_for_message over the retrieved events
RECURSIVE ListeningFrom(_, _)
ListeningFrom(events, i) ==
    IF i = 0 THEN FALSE
    ELSE IF events[i].event = "user" THEN FALSE
    ELSE IF events[i].event = "action" THEN events[i].name = ACTION_LISTEN_NAME
    ELSE ListeningFrom(events, i - 1)

is_listening_for_message(events) ==
    ListeningFrom(RetrieveApplied(events), Len(RetrieveApplied(events)))

\* faulty variant of RestartConversation: the restart is sent without the
\* action_listen that follows it
RestartConversationWithoutListen ==
    /\ pc = "idle"
    /\ Len(log) < MaxLog
    /\ log' = send_event(log, <<Restarted>>)
    /\ op' = [kind |-> "restart", before |-> log, raised |-> None]
    /\ UNCHANGED <<tracker, domain, result, pc, inp, out>>

\* record_messages on RestartConversation
RestartConversation ==
    /\ pc = "idle"
    /\ Len(log) < MaxLog
    /\ log' = send_event(send_event(log, <<Restarted>>),
                         <<ActionExecuted(ACTION_LISTEN_NAME)>>)
    /\ op' = [kind |-> "restart", before |-> log, raised |-> None]
    /\ UNCHANGED <<tracker, domain, result, pc, inp, out>>

\* record_messages on UndoLastStep
UndoLatest ==
    /\ pc = "idle"
    /\ Len(log) < MaxLog
    /\ log' = _undo_latest(log)
    /\ op' = [kind |-> "undo", before |-> log, raised |-> None]
    /\ UNCHANGED <<tracker, domain, result, pc, inp, out>>

\* _validate_nlu when the user rejects the NLU result of the latest message
CorrectWrongNlu(intent, entities) ==
    /\ pc = "idle"
    /\ Len(log) < MaxLog
    /\ log' = _correct_wrong_nlu(CorrectedNlu(log, intent, entities), log)
    /\ op' = [kind |-> "correct", before |-> log,
              raised |-> CorrectionEvents(CorrectedNlu(log, intent, entities),
                                          RetrieveAfterRestart(log)).raised]
    /\ pc' = AfterOperation(CorrectionEvents(CorrectedNlu(log, intent, entities),
                                             RetrieveAfterRestart(log)).raised)
    /\ UNCHANGED <<tracker, domain, result, inp, out>>

\* the user messages _request_fork_from_user offers, by their place in the
\* retrieved events
ForkChoices(events) == {i \in 1..Len(events) : events[i].event = "user"}

\* faulty variant of _request_fork_from_user: the chosen user message is kept
_request_fork_from_user_inclusive(events, fork_idx) ==
    IF fork_idx = 0 THEN <<>>
    ELSE SubSeq(RetrieveAfterRestart(events), 1, fork_idx)

\* the events _request_fork_from_user returns for the chosen user message:
\* those before it; 0 stands for no choice and the return value None
_request_fork_from_user(events, fork_idx) ==
    IF fork_idx = 0 THEN <<>>
    ELSE SubSeq(RetrieveAfterRestart(events), 1, fork_idx - 1)

\* the events are sent one at a time, in order
RECURSIVE SendEach(_, _)
SendEach(events, events_fork) ==
    IF events_fork = <<>> THEN events
    ELSE SendEach(send_event(events, <<Head(events_fork)>>), Tail(events_fork))

\* record_messages on ForkTracker
Fork(fork_idx) ==
    /\ pc = "idle"
    /\ Len(log) < MaxLog
    /\ fork_idx \in ForkChoices(RetrieveAfterRestart(log)) \cup {0}
    /\ log' = SendEach(send_event(log, <<Restarted>>),
                       _request_fork_from_user(log, fork_idx))
    /\ op' = [kind |-> "fork", before |-> log, raised |-> None,
              fork_idx |-> fork_idx]
    /\ UNCHANGED <<tracker, domain, result, pc, inp, out>>

NextInteractive ==
    \/ \E m \in InteractiveMessages : EnterUserMessage(m)
    \/ \E action_name \in InteractiveActions, prediction \in Predictions,
          is_new_action \in BOOLEAN, fails \in BOOLEAN :
            SendAction(action_name, prediction, is_new_action, fails)
    \/ RestartConversation
    \/ UndoLatest
    \/ \E fork_idx \in 0..MaxLog : Fork(fork_idx)
    \/ \E intent \in CorrectedIntents,
          entities \in {<<>>, <<Entity("city", "Rome", None, None)>>} :
            CorrectWrongNlu(intent, entities)

SpecInteractive == InitInteractive /\ [][NextInteractive]_vars

-----------------------------------------------------------------------------
(* Properties of the tracker and of the form action's run (Spec) *)

RECURSIVE FoldApply(_, _)
FoldApply(evts, st) ==
    IF evts = <<>> THEN st ELSE FoldApply(Tail(evts), apply(st, Head(evts)))

SinceLastRestart(evts) == SubSeq(evts, LastRestart(evts, Len(evts)) + 1, Len(evts))

SlotSetsOf(slot_values) ==
    [i \in 1..Len(slot_values) |-> SlotSet(slot_values[i].slot, slot_values[i].value)]

\* C1: the applied state of a tracker rebuilt by from_events, and the cached
\* state of the tracker after any sequence of appends, is the fold of apply over
\* the events after the last Restarted; the what-if tracker of a run is the fold
\* over the committed events followed by the validation events.
ReplayIsFoldSinceRestart ==
    /\ AppliedState(from_events(tracker.events))
         = FoldApply(SinceLastRestart(tracker.events), InitialState)
    /\ AppliedState(tracker)
         = FoldApply(SinceLastRestart(tracker.events), InitialState)
    /\ (pc = "ran" /\ result.decided) =>
         AppliedState(result.temp_tracker)
           = FoldApply(SinceLastRestart(result.before.events \o result.validation_events),
                       InitialState)

\* a run decides the next slot on a what-if tracker after a restart that wiped
\* earlier slots and messages, with validation events to replay
ReplayAfterRestartReached ==
    /\ pc = "ran"
    /\ result.decided
    /\ result.validation_events # <<>>
    /\ \E i \in 2..Len(result.before.events) :
          /\ result.before.events[i].event = "restart"
          /\ \E j \in 1..(i - 1) : result.before.events[j].event \in {"slot", "user"}

\* C2: a run leaves the tracker it is given as it was (events and applied
\* state); the tracker handed to the remote validation action and the tracker
\* the next slot is chosen on are new trackers replayed from the committed
\* events after the latest restart followed by the hypothetical events.
RunLeavesTrackerUntouched ==
    pc = "ran" =>
        /\ tracker = result.before
        /\ result.validation.delegated =>
             /\ result.validation.hypothetical
                  = from_events(SinceLastRestart(result.before.events)
                                  \o SlotSetsOf(result.slot_values))
             /\ result.slot_values # <<>> =>
                  result.validation.hypothetical # result.before
        /\ result.decided =>
             result.temp_tracker
               = from_events(SinceLastRestart(result.before.events)
                               \o result.validation_events)

\* a run that called the remote validation action and chose the next slot
RunWithBothWhatIfsReached ==
    /\ pc = "ran"
    /\ result.validation.delegated
    /\ result.slot_values # <<>>
    /\ result.decided
    /\ result.validation_events # <<>>

-----------------------------------------------------------------------------
(* Properties of the interactive-learning client *)

IsPrefix(p, q) == Len(p) <= Len(q) /\ SubSeq(q, 1, Len(p)) = p

\* the events an operation added to the log it found
Added == SubSeq(log, Len(op.before) + 1, Len(log))

\* C3: undoing the latest step and correcting the NLU result of the latest
\* user message only append to the event log: the log before the operation
\* is a prefix of the log after it, and what is added is the compensating
\* events (an ActionReverted, or a UserUtteranceReverted followed by
\* action_listen and, for a correction, the corrected message)
EventLogIsAppendOnly ==
    /\ IsPrefix(op.before, log)
    /\ op.kind = "undo" =>
         \/ Added = <<>> /\ \A k \in (LastRestart(op.before, Len(op.before)) + 1)
                                       ..Len(op.before) :
                              op.before[k].event \notin {"action", "user"}
         \/ Added = <<ActionReverted>>
         \/ Added = <<UserUtteranceReverted, ActionExecuted(ACTION_LISTEN_NAME)>>
    /\ (op.kind = "correct" /\ op.raised = None) =>
         /\ Len(Added) = 3
         /\ SubSeq(Added, 1, 2)
              = <<UserUtteranceReverted, ActionExecuted(ACTION_LISTEN_NAME)>>
         /\ Added[3].event = "user"
         /\ \E k \in 1..Len(op.before) :
              /\ op.before[k].event = "user"
              /\ Added[3].parse_data.text = op.before[k].parse_data.text
    /\ (op.kind = "correct" /\ op.raised # None) => Added = <<>>

UndoneUserMessageReached ==
    /\ op.kind = "undo"
    /\ op.before # <<>>
    /\ op.before[Len(op.before)].event = "user"
    /\ Len(log) = Len(op.before) + 2
    /\ \E k \in 1..Len(op.before) : op.before[k].event = "rewind"

-----------------------------------------------------------------------------
(* Properties of slot-mapping resolution *)

ImplicitMapping(slot) == Mapping("from_entity", slot, <<>>, <<>>, None, None, NoneVal)

\* the domain with the slot configured with the entity mapping of its name
WithExplicitMapping(dom, slot) ==
    [dom EXCEPT !.forms[1].config =
        @ \o <<[slot |-> slot, mappings |-> ListVal(<<ImplicitMapping(slot)>>)]>>]

Unconfigured(dom, slot) == KeyIndex(slot_mappings(dom), slot, 1) = 0

\* C4: a slot the form has no mapping configured for is extracted as if it
\* were configured with the single mapping from_entity(entity = slot name)
ImplicitMappingIsFromEntity ==
    (out.kind = "requested" /\ Unconfigured(ResolveDomain(inp), inp.requested)) =>
        /\ get_mappings_for_slot(ResolveDomain(inp), inp.requested)
             = [raised |-> None, mappings |-> <<ImplicitMapping(inp.requested)>>]
        /\ [raised |-> out.raised, values |-> out.values]
             = extract_requested_slot(
                   WithExplicitMapping(ResolveDomain(inp), inp.requested),
                   ResolveTracker(inp))

UnconfiguredSlotFilledReached ==
    /\ out.kind = "requested"
    /\ Unconfigured(ResolveDomain(inp), inp.requested)
    /\ out.values = <<[slot |-> "cuisine", value |-> Scalar("thai")]>>

\* C5 as stated: a mapping applies exactly when (its not_intent filter is
\* empty and the intent is not in its not_intent filter) or the intent is in
\* its intent filter
AppliesWhenNotIntentEmpty ==
    out.kind = "intent" =>
        (out.desired <=>
            \/ /\ out.mapping.not_intent = <<>>
               /\ ~InSeq(inp.message.intent, out.mapping.not_intent)
            \/ InSeq(inp.message.intent, out.mapping.intent))

\* C5: a mapping applies to the current intent exactly when (its intent
\* filter is empty and the intent is not in its not_intent filter) or the
\* intent is in its intent filter
AppliesWhenIntentEmpty ==
    out.kind = "intent" =>
        (out.desired <=>
            \/ /\ out.mapping.intent = <<>>
               /\ ~InSeq(inp.message.intent, out.mapping.not_intent)
            \/ InSeq(inp.message.intent, out.mapping.intent))

NotIntentFilterPassedReached ==
    /\ out.kind = "intent"
    /\ out.mapping.intent = <<>>
    /\ out.mapping.not_intent # <<>>
    /\ ~InSeq(inp.message.intent, out.mapping.not_intent)
    /\ out.desired

\* C6: a mapping with only a not_intent filter applies to every intent
\* outside that filter, a mapping with an intent filter applies only to the
\* intents in it, and a mapping with neither applies to every intent
IntentFilterCases ==
    out.kind = "intent" =>
        /\ (out.mapping.intent = <<>> /\ out.mapping.not_intent # <<>>) =>
              (out.desired <=> ~InSeq(inp.message.intent, out.mapping.not_intent))
        /\ out.mapping.intent # <<>> =>
              (out.desired <=> InSeq(inp.message.intent, out.mapping.intent))
        /\ (out.mapping.intent = <<>> /\ out.mapping.not_intent = <<>>) => out.desired

ExcludedIntentReached ==
    /\ out.kind = "intent"
    /\ out.mapping.intent = <<>>
    /\ InSeq(inp.message.intent, out.mapping.not_intent)
    /\ ~out.desired

\* the values of the entities of a message that a from_entity mapping asks for
Matches(m, message) == MatchingValues(message.entities, m.entity, m.role, m.group)

\* the domain whose destination slot has the given mappings
DomainOfMappings(mappings) == ResolveDomainOf(ResolveConfig(ListVal(mappings)))

\* what the requested slot gets from the mappings after the first
FromLaterMappings ==
    extract_requested_slot(DomainOfMappings(Tail(inp.mappings)), ResolveTracker(inp))

\* C7: an applicable from_entity mapping gives the single value when exactly
\* one entity of the latest message matches, the list of the values in
\* message order when several match, and nothing when none matches (the
\* mappings after it are then tried)
EntityValueSingleListOrNone ==
    /\ out.kind = "entity" =>
         out.value = IF Len(Matches(out.mapping, inp.message)) = 0 THEN NoneVal
                     ELSE IF Len(Matches(out.mapping, inp.message)) = 1
                     THEN Scalar(Matches(out.mapping, inp.message)[1])
                     ELSE ListVal(Matches(out.mapping, inp.message))
    /\ (/\ out.kind = "requested"
        /\ inp.requested = "destination"
        /\ inp.mappings # <<>>
        /\ inp.mappings[1].type = "from_entity"
        /\ intent_is_desired(inp.mappings[1], ResolveTracker(inp))) =>
         /\ Len(Matches(inp.mappings[1], inp.message)) = 1 =>
              out.values = <<[slot |-> "destination",
                              value |-> Scalar(Matches(inp.mappings[1], inp.message)[1])]>>
         /\ Len(Matches(inp.mappings[1], inp.message)) > 1 =>
              out.values = <<[slot |-> "destination",
                              value |-> ListVal(Matches(inp.mappings[1], inp.message))]>>
         /\ Len(Matches(inp.mappings[1], inp.message)) = 0 =>
              out.values = FromLaterMappings.values

\* Scenario A: destination <- from_entity(city), the user names Paris
SingleEntityFillsSlotReached ==
    /\ out.kind = "requested"
    /\ inp.mappings = <<Mapping("from_entity", "city", <<>>, <<>>, None, None, NoneVal)>>
    /\ inp.message.entities = <<Entity("city", "Paris", None, None)>>
    /\ out.values = <<[slot |-> "destination", value |-> Scalar("Paris")]>>

\* what the k-th mapping gives for the requested slot when it is the only one
Alone(k) ==
    extract_requested_slot(DomainOfMappings(<<inp.mappings[k]>>), ResolveTracker(inp))

\* C8: the mappings of the requested slot are tried in the order declared and
\* the first that gives a value decides the slot; when none gives a value the
\* extraction is empty and no error is raised
FirstMappingWithValueWins ==
    (out.kind = "requested" /\ inp.requested = "destination") =>
        /\ out.raised = None
        /\ \A k \in 1..Len(inp.mappings) :
             (Alone(k).values # <<>>
                /\ \A j \in 1..(k - 1) : Alone(j).values = <<>>)
                  => out.values = Alone(k).values
        /\ (\A k \in 1..Len(inp.mappings) : Alone(k).values = <<>>)
             => out.values = <<>>

TwoMappingsCompeteReached ==
    /\ out.kind = "requested"
    /\ inp.requested = "destination"
    /\ Len(inp.mappings) = 2
    /\ Alone(1).values # <<>>
    /\ Alone(2).values # <<>>
    /\ Alone(1).values # Alone(2).values
    /\ out.values = Alone(1).values

-----------------------------------------------------------------------------
(* Properties of extraction during a run of the form *)

\* the value only the from_trigger_intent mapping of the form gives
TriggerValue == Scalar("home")

\* C9: a from_trigger_intent mapping fills its slot only on the run that
\* activates the form; once the form is active no run takes a value from it
TriggerIntentOnlyOnActivation ==
    pc = "ran" =>
        /\ \A k \in 1..Len(result.slot_values) :
             result.slot_values[k].value = TriggerValue
               => result.before.active_form.name # FormName
        /\ \A k \in 1..Len(result.events) :
             (result.events[k].event = "slot" /\ result.events[k].value = TriggerValue)
               => result.before.active_form.name # FormName

TriggerSlotFilledOnActivationReached ==
    /\ pc = "ran"
    /\ result.before.active_form.name # FormName
    /\ result.before.latest_message.intent = "greet"
    /\ \E k \in 1..Len(result.events) :
         result.events[k] = SlotSet("destination", TriggerValue)

\* the index of the latest user message of the events, 0 if there is none
RECURSIVE LatestUserEvent(_, _)
LatestUserEvent(evts, k) ==
    IF k = 0 THEN 0
    ELSE IF evts[k].event = "user" THEN k
    ELSE LatestUserEvent(evts, k - 1)

EntityValuesOf(message) ==
    {message.entities[j].value : j \in 1..Len(message.entities)}

\* the values of all the entities of the user messages among the events
EntityValuesIn(evts) ==
    UNION {EntityValuesOf(evts[k].parse_data) :
              k \in {n \in 1..Len(evts) : evts[n].event = "user"}}

\* the most recent user message among the events
LatestMessageOf(evts) ==
    IF LatestUserEvent(evts, Len(evts)) = 0 THEN EmptyMessage
    ELSE evts[LatestUserEvent(evts, Len(evts))].parse_data

\* C10: a slot value taken from an entity comes from the most recent user
\* message: no run extracts the value of an entity that only an earlier
\* message of the conversation carries
EntitiesOnlyFromLatestMessage ==
    pc = "ran" =>
        \A k \in 1..Len(result.slot_values) :
            \A v \in EntityValuesIn(result.before.events) :
                result.slot_values[k].value = Scalar(v)
                  => v \in EntityValuesOf(
                              LatestMessageOf(SinceLastRestart(result.before.events)))

EarlierEntityNotExtractedReached ==
    /\ pc = "ran"
    /\ result.slot_values # <<>>
    /\ "Paris" \in EntityValuesIn(result.before.events)
    /\ "Paris" \notin EntityValuesOf(LatestMessageOf(result.before.events))
    /\ get_slot(result.before, "destination") = NoneVal

-----------------------------------------------------------------------------
(* Properties of the steps of a run of the form *)

\* the form is called after action_listen and validation is not switched off
ValidationRequired(t) ==
    /\ t.latest_action_name = ACTION_LISTEN_NAME
    /\ t.active_form.validate # PyFalse

\* the run shows that validation took place
ValidationObserved ==
    \/ result.raised # None
    \/ result.slot_values # <<>>
    \/ result.validation_events # <<>>

ValidatesRequestedSlot ==
    /\ pc = "ran"
    /\ ValidationRequired(result.before)
    /\ Truthy(get_slot(result.before, REQUESTED_SLOT))

Rejected == result.raised = "ActionExecutionRejection"

\* no mapping of the slot can give a value for the message: it is an entity
\* mapping and the message has no entity, or a trigger mapping, or a mapping
\* whose intent conditions the message does not meet
OffFilter(t, slot) ==
    /\ t.latest_message.entities = <<>>
    /\ \A k \in 1..Len(get_mappings_for_slot(domain, slot).mappings) :
         \/ get_mappings_for_slot(domain, slot).mappings[k].type
                \in {"from_entity", "from_trigger_intent"}
         \/ ~intent_is_desired(get_mappings_for_slot(domain, slot).mappings[k], t)

\* C12 as stated: when a slot is requested and the message gives no value for
\* that slot, the form action is rejected
RejectedWithoutRequestedValue ==
    (/\ ValidatesRequestedSlot
     /\ extract_requested_slot(domain, result.before).values = <<>>) => Rejected

\* C12: when a slot is requested, the form action is rejected exactly when the
\* message gives a value neither for the requested slot nor for any other
\* required slot; a message without entities whose intent is off-filter for
\* the mappings of the requested slot is rejected once the form is active
RejectedWhenNothingExtracted ==
    ValidatesRequestedSlot =>
        /\ Rejected <=>
             /\ extract_requested_slot(domain, result.before).values = <<>>
             /\ extract_other_slots(domain, result.before).values = <<>>
        /\ Rejected => result.events = <<>> /\ result.slot_values = <<>>
        /\ ~Rejected => result.raised = None /\ result.slot_values # <<>>
        /\ (/\ result.before.active_form.name = FormName
            /\ OffFilter(result.before, SlotKey(get_slot(result.before, REQUESTED_SLOT))))
             => Rejected

\* Scenario C: people is requested, the message has no entities and an intent
\* none of the mappings of people accepts
OffFilterMessageRejectedReached ==
    /\ ValidatesRequestedSlot
    /\ get_slot(result.before, REQUESTED_SLOT) = Scalar("people")
    /\ result.before.latest_message.intent = "greet"
    /\ OffFilter(result.before, "people")
    /\ Rejected

\* the domain lists action_validate_<form name> and the validate flag of the
\* active form is true
MayDelegate(t) ==
    /\ ValidateName \in domain.action_names
    /\ t.active_form.validate = PyTrue

\* the run called validate_slots on the values extracted from the message
ValidatedExtractedValues ==
    pc = "ran" /\ ValidationRequired(result.before) /\ result.raised = None

\* the slots that were set before the activation of the form
PrefilledOf(t) ==
    SelectSeq(required_slots(domain), LAMBDA slot_name : get_slot(t, slot_name) # NoneVal)

\* C13: validate_slots hands the proposed slots to the remote action
\* action_validate_<form name> exactly when the domain lists that action and
\* the validate flag of the active form is true, on a tracker replayed from the
\* events after the latest restart followed by one SlotSet per proposed slot;
\* otherwise it returns one SlotSet per proposed slot, the value unchanged
DelegatesWhenListedAndFlagged ==
    /\ ValidatedExtractedValues =>
         /\ result.validation.delegated <=> MayDelegate(result.before)
         /\ result.validation.delegated =>
              /\ result.validation.hypothetical
                   = from_events(SinceLastRestart(result.before.events)
                                   \o SlotSetsOf(result.slot_values))
              /\ \E resp \in RemoteResponses :
                   result.validation_events
                     = RemoteRun(resp, SlotSetsOf(result.slot_values))
         /\ ~result.validation.delegated =>
              result.validation_events = SlotSetsOf(result.slot_values)
    /\ (pc = "ran" /\ result.before.active_form.name # FormName
            /\ PrefilledOf(result.before) # <<>>) =>
         /\ result.activation.delegated <=> MayDelegate(result.before)
         /\ ~result.activation.delegated =>
              result.activation_events
                = <<Form(FormName)>>
                    \o [k \in 1..Len(PrefilledOf(result.before)) |->
                          SlotSet(PrefilledOf(result.before)[k],
                                  get_slot(result.before, PrefilledOf(result.before)[k]))]

RemoteValidatorAnsweredReached ==
    /\ ValidatedExtractedValues
    /\ result.validation.delegated
    /\ result.slot_values # <<>>
    /\ result.validation_events # SlotSetsOf(result.slot_values)
    /\ result.validation_events # <<>>

\* the positions of the required slots that have no value in the tracker
UnsetSlots(t, slots) == {k \in 1..Len(slots) : get_slot(t, slots[k]) = NoneVal}

\* the first of the slots without value in the tracker
FirstUnset(t, slots) ==
    slots[CHOOSE k \in UnsetSlots(t, slots) : \A j \in UnsetSlots(t, slots) : k <= j]

\* C14: request_next_slot returns SlotSet(requested_slot, s) for the first
\* required slot s, in declaration order, that has no value in the tracker, and
\* returns no event exactly when every required slot has a value
NextSlotIsFirstUnset ==
    (pc = "ran" /\ result.decided) =>
        /\ request_next_slot(result.temp_tracker, domain).found
             <=> UnsetSlots(result.temp_tracker, required_slots(domain)) # {}
        /\ UnsetSlots(result.temp_tracker, required_slots(domain)) = {} =>
             request_next_slot(result.temp_tracker, domain).events = <<>>
        /\ UnsetSlots(result.temp_tracker, required_slots(domain)) # {} =>
             /\ request_next_slot(result.temp_tracker, domain).events
                  = <<SlotSet(REQUESTED_SLOT,
                              Scalar(FirstUnset(result.temp_tracker,
                                                required_slots(domain))))>>
             /\ result.events[Len(result.events)]
                  = SlotSet(REQUESTED_SLOT,
                            Scalar(FirstUnset(result.temp_tracker,
                                              required_slots(domain))))

\* Scenario B: of the required slots the first is set and the second is not
SecondSlotRequestedReached ==
    /\ pc = "ran"
    /\ result.decided
    /\ required_slots(domain) = <<"destination", "people">>
    /\ get_slot(result.temp_tracker, "destination") # NoneVal
    /\ get_slot(result.temp_tracker, "people") = NoneVal
    /\ result.events[Len(result.events)] = SlotSet(REQUESTED_SLOT, Scalar("people"))

\* the run was not rejected and every required slot has a value once the
\* validation events are applied to the events after the latest restart
AllSlotsSetAfterValidation ==
    /\ pc = "ran"
    /\ result.raised = None
    /\ UnsetSlots(from_events(SinceLastRestart(result.before.events)
                                \o result.validation_events),
                  required_slots(domain)) = {}

\* the events of the run set the requested slot to the name of a slot
RequestsASlot ==
    \E k \in 1..Len(result.events) :
        /\ result.events[k].event = "slot"
        /\ result.events[k].name = REQUESTED_SLOT
        /\ result.events[k].value # NoneVal

EndsWithDeactivation ==
    /\ Len(result.events) >= 2
    /\ SubSeq(result.events, Len(result.events) - 1, Len(result.events))
         = <<Form(None), SlotSet(REQUESTED_SLOT, NoneVal)>>

\* C15 as stated: whenever every required slot is set after the validation
\* events are applied, the returned events end with Form(None) followed by
\* SlotSet(requested_slot, None) and request no slot
SubmitsWheneverAllSlotsSet ==
    AllSlotsSetAfterValidation => EndsWithDeactivation /\ ~RequestsASlot

\* C15: when every required slot is set after the validation events are
\* applied, and validation itself did not deactivate the form, the run returns
\* the validation events followed by Form(None) and
\* SlotSet(requested_slot, None), and requests no slot
SubmitsUnlessValidationDeactivated ==
    (AllSlotsSetAfterValidation /\ ~InSeq(Form(None), result.validation_events)) =>
        /\ EndsWithDeactivation
        /\ ~RequestsASlot
        /\ result.events
             = result.validation_events \o <<Form(None), SlotSet(REQUESTED_SLOT, NoneVal)>>

LastSlotFilledAndSubmittedReached ==
    /\ AllSlotsSetAfterValidation
    /\ result.before.active_form.name = FormName
    /\ get_slot(result.before, REQUESTED_SLOT) = Scalar("people")
    /\ result.slot_values # <<>>
    /\ ~InSeq(Form(None), result.validation_events)
    /\ EndsWithDeactivation

\* C16: when the events of the validation step contain Form(None), the run
\* returns exactly those events: no next slot is selected, nothing is
\* submitted, no SlotSet(requested_slot, ...) and no second deactivation is added
ValidatorDeactivationIsFinal ==
    (pc = "ran" /\ result.raised = None
        /\ InSeq(Form(None), result.validation_events)) =>
        /\ result.events = result.validation_events
        /\ ~result.decided
        /\ Cardinality({k \in 1..Len(result.events) : result.events[k] = Form(None)})
             = Cardinality({k \in 1..Len(result.validation_events) :
                               result.validation_events[k] = Form(None)})

ValidatorDeactivatedFormReached ==
    /\ pc = "ran"
    /\ result.validation.delegated
    /\ result.slot_values # <<>>
    /\ InSeq(Form(None), result.validation_events)
    /\ result.validation_events[1].event = "slot"
    /\ result.events = result.validation_events

\* the run was called on a tracker in which this form is not the active form,
\* and was not rejected
ActivatingRun ==
    /\ pc = "ran"
    /\ result.before.active_form.name # FormName
    /\ result.raised = None

\* C17 as stated: every run on a tracker whose active form is not this form,
\* unless rejected, returns events that contain Form(<form name>)
ActivationAlwaysReturned ==
    ActivatingRun => InSeq(Form(FormName), result.events)

\* C17: a run on a tracker whose active form is not this form, unless
\* rejected, returns Form(<form name>) exactly when it goes on to request a
\* slot, and then as its first event; when the form finishes in that same run,
\* or the validation events deactivate it, the activation events are not
\* returned
ActivationReturnedWhenSlotRequested ==
    /\ ActivatingRun =>
         /\ result.activation_events # <<>>
         /\ result.activation_events[1] = Form(FormName)
         /\ InSeq(Form(FormName), result.events) <=> RequestsASlot
         /\ RequestsASlot =>
              /\ result.events[1] = Form(FormName)
              /\ SubSeq(result.events, 1, Len(result.events) - 1)
                   = result.activation_events \o result.validation_events
         /\ ~RequestsASlot =>
              result.events =
                  IF InSeq(Form(None), result.validation_events)
                  THEN result.validation_events
                  ELSE result.validation_events \o deactivate
    /\ (pc = "ran" /\ result.before.active_form.name = FormName) =>
         ~InSeq(Form(FormName), result.events)

FormFinishedOnActivationReached ==
    /\ ActivatingRun
    /\ result.slot_values # <<>>
    /\ EndsWithDeactivation
    /\ ~InSeq(Form(FormName), result.events)

-----------------------------------------------------------------------------
(* Properties of the lookup of slot mappings *)

\* one of the entries is not a dict or has no type
Broken(entries) ==
    \E k \in 1..Len(entries) : entries[k].type \in {NotADict, None}

\* the operation looked up the mappings of the slot people
LooksUpPeople ==
    \/ out.kind = "requested" /\ inp.requested = "people"
    \/ out.kind = "other" /\ inp.requested # "people"
    \/ out.kind = "validated"

\* C18: looking up the mappings of a slot raises TypeError when one of the
\* entries configured for it is not a dict or has no type, even if an entry
\* before it would give a value: nothing is extracted and validation returns
\* no event; entries that are all dicts with a type raise no TypeError
BrokenEntryFailsLookup ==
    /\ LooksUpPeople =>
         /\ Broken(inp.people) =>
              /\ out.raised = "TypeError"
              /\ out.kind \in {"requested", "other"} => out.values = <<>>
              /\ out.kind = "validated" => out.events = <<>> /\ out.slot_values = <<>>
         /\ ~Broken(inp.people) => out.raised # "TypeError"
    /\ get_mappings_for_slot(ResolveDomain(inp), "people").raised
         = IF Broken(inp.people) THEN "TypeError" ELSE None

BrokenEntryAfterGoodOneReached ==
    /\ out.kind = "requested"
    /\ inp.requested = "people"
    /\ Len(inp.people) = 2
    /\ inp.people[1].type = "from_text"
    /\ inp.people[2].type = NotADict
    /\ inp.message.text # None
    /\ out.raised = "TypeError"
    /\ out.values = <<>>

BothFilters(m) == m.intent # <<>> /\ m.not_intent # <<>>

\* C19: every mapping the form evaluates has at most one of its intent filter
\* and its not_intent filter non-empty: intent_is_desired is given no mapping
\* with both, and no extracted value comes from such a mapping
FiltersMutuallyExclusive ==
    /\ out.kind = "intent" => ~BothFilters(out.mapping)
    /\ (out.kind = "requested" /\ inp.requested = "destination"
          /\ Len(inp.mappings) = 1 /\ out.values # <<>>) => ~BothFilters(inp.mappings[1])

-----------------------------------------------------------------------------
(* Properties of the requests of the interactive-learning client *)

\* the request to execute an action failed with a transport error
ExecuteFailed == op.kind = "action" /\ op.fails

\* C20: when the request to execute an action fails with a transport error, a
\* new action is logged as a bare ActionExecuted(action_name), without policy
\* and confidence, and the session goes on; for a known action the error
\* reaches the caller, nothing is logged and the session ends
FailedActionDowngradedOnlyWhenNew ==
    ExecuteFailed =>
        /\ op.is_new_action =>
             /\ op.raised = None
             /\ pc = "idle"
             /\ log = op.before \o <<ActionExecuted(op.name)>>
             /\ log[Len(log)].policy = None
             /\ log[Len(log)].confidence = None
        /\ ~op.is_new_action =>
             /\ op.raised = "ClientError"
             /\ pc = "failed"
             /\ log = op.before

NewActionFailedAndLoggedReached ==
    /\ ExecuteFailed
    /\ op.is_new_action
    /\ op.before # <<>>
    /\ op.before[Len(op.before)].event = "action"
    /\ op.before[Len(op.before)].policy # None
    /\ log = op.before \o <<ActionExecuted(op.name)>>

\* how many of the requests of the last send_action were execute requests
ExecuteRequests ==
    Cardinality({k \in 1..Len(op.requests) : op.requests[k] = "execute"})

\* C21: one call of send_action sends the execute request exactly once,
\* whether it succeeds or fails; after a failure the only request that may
\* follow is the tracker/events request of a new action, never a second execute
ExecuteRequestSentOnce ==
    op.kind = "action" =>
        /\ ExecuteRequests = 1
        /\ op.requests[1] = "execute"
        /\ ~op.fails => op.requests = <<"execute">>
        /\ (op.fails /\ ~op.is_new_action) => op.requests = <<"execute">>
        /\ (op.fails /\ op.is_new_action) => op.requests = <<"execute", "tracker/events">>

KnownActionFailedOnceReached ==
    /\ op.kind = "action"
    /\ op.fails
    /\ ~op.is_new_action
    /\ op.raised = "ClientError"
    /\ op.requests = <<"execute">>
    /\ op.before # <<>>

-----------------------------------------------------------------------------
(* Properties of the events of the remote validation action *)

\* the events the remote validation action answered while the form activated
RemoteActivationEvents ==
    IF result.activation.delegated THEN Tail(result.activation_events) ELSE <<>>

\* the events the remote validation action answered for the extracted slots
RemoteValidationEvents ==
    IF result.validation.delegated THEN result.validation_events ELSE <<>>

\* block is a contiguous part of evts
IsBlockOf(block, evts) ==
    \E k \in 1..(Len(evts) + 1) :
        /\ k + Len(block) - 1 <= Len(evts)
        /\ SubSeq(evts, k, k + Len(block) - 1) = block

\* what the form itself may put after the validation events
OwnTrailingEvents ==
    {<<>>, deactivate} \cup {<<SlotSet(REQUESTED_SLOT, Scalar(s))>> : s \in SlotNames}

\* C22 as stated: whatever the remote validation action returned during a
\* run that is not rejected is a contiguous block of the events of the run
RemoteEventsAlwaysReturned ==
    (pc = "ran" /\ result.raised = None) =>
        /\ IsBlockOf(RemoteActivationEvents, result.events)
        /\ IsBlockOf(RemoteValidationEvents, result.events)

\* C22: the events the remote action returned for the extracted slots are
\* returned in the order received as one block: the events of the run are the
\* activation events or nothing, then that block, then nothing, the event
\* requesting the next slot or the deactivation events. The events the remote
\* action returned while activating are returned, as one block right after
\* Form(<form name>), only when the run requests a slot
RemoteValidationEventsInOrder ==
    (pc = "ran" /\ result.raised = None) =>
        /\ result.validation.delegated =>
             \E pre \in {<<>>, result.activation_events}, post \in OwnTrailingEvents :
                 result.events = pre \o RemoteValidationEvents \o post
        /\ (result.activation.delegated /\ RequestsASlot) =>
             /\ SubSeq(result.events, 1, 1 + Len(RemoteActivationEvents))
                  = <<Form(FormName)>> \o RemoteActivationEvents
             /\ SubSeq(result.events, 2 + Len(RemoteActivationEvents),
                       Len(result.events) - 1) = result.validation_events
        /\ (result.activation.delegated /\ ~RequestsASlot) =>
             \E post \in OwnTrailingEvents :
                 result.events = result.validation_events \o post

BothRemoteAnswersReturnedReached ==
    /\ pc = "ran"
    /\ result.raised = None
    /\ result.activation.delegated
    /\ result.validation.delegated
    /\ Len(RemoteActivationEvents) >= 1
    /\ Len(RemoteValidationEvents) >= 1
    /\ RequestsASlot

-----------------------------------------------------------------------------
(* Specification SpecStub: the stub executor of custom actions in end-to-end
   tests. The endpoint configuration carries the names of the running test
   file and test case and the registered stubs *)

STUB_CUSTOM_ACTION_NAME_SEPARATOR == "::"

TestFileName == "tests.yml"
TestCaseName == "test_booking"
StubbedActions == {"action_book", "action_cancel"}

\* the prerecorded answers of an action server
StubData ==
    {[events |-> <<SlotSet("destination", Scalar("Rome"))>>, responses |-> <<>>],
     [events |-> <<>>, responses |-> <<[text |-> "Booked."]>>]}

\* StubCustomAction.from_dict
StubCustomAction(action_name, data) ==
    [action_name |-> action_name, events |-> data.events, responses |-> data.responses]

\* StubCustomAction.as_dict: the response of the action server the stub stands for
as_dict(stub) == [events |-> stub.events, responses |-> stub.responses]

get_stub_custom_action_key(prefix, action_name) ==
    prefix \o STUB_CUSTOM_ACTION_NAME_SEPARATOR \o action_name

StubKeys ==
    {get_stub_custom_action_key(prefix, action_name) :
        prefix \in {TestFileName, TestCaseName}, action_name \in StubbedActions}

ActionOfKey(key) ==
    CHOOSE action_name \in StubbedActions :
        \E prefix \in {TestFileName, TestCaseName} :
            key = get_stub_custom_action_key(prefix, action_name)

\* the endpoint configurations: any subset of the scoped keys is registered
EndpointConfigs ==
    UNION {{[test_file_name |-> TestFileName, test_case_name |-> TestCaseName,
             stub_custom_actions |->
                 [key \in keys |-> StubCustomAction(ActionOfKey(key), data[key])]] :
               data \in [keys -> StubData]} : keys \in SUBSET StubKeys}

\* found = FALSE stands for the return value None
Unstubbed == [found |-> FALSE, stub |-> StubCustomAction(None, [events |-> <<>>, responses |-> <<>>])]

\* faulty variant of get_stub_custom_action: the stub of the test file wins
get_stub_custom_action_file_first(action_endpoint, action_name) ==
    IF get_stub_custom_action_key(action_endpoint.test_file_name, action_name)
           \in DOMAIN action_endpoint.stub_custom_actions
    THEN [found |-> TRUE,
          stub |-> action_endpoint.stub_custom_actions[
                       get_stub_custom_action_key(action_endpoint.test_file_name,
                                                  action_name)]]
    ELSE IF get_stub_custom_action_key(action_endpoint.test_case_name, action_name)
           \in DOMAIN action_endpoint.stub_custom_actions
    THEN [found |-> TRUE,
          stub |-> action_endpoint.stub_custom_actions[
                       get_stub_custom_action_key(action_endpoint.test_case_name,
                                                  action_name)]]
    ELSE Unstubbed

\* the lookup of the stub of an action: the stub of the test case, else the
\* stub of the test file, else None
get_stub_custom_action(action_endpoint, action_name) ==
    LET test_case_key ==
            get_stub_custom_action_key(action_endpoint.test_case_name, action_name)
        test_file_key ==
            get_stub_custom_action_key(action_endpoint.test_file_name, action_name)
    IN  IF test_case_key \in DOMAIN action_endpoint.stub_custom_actions
        THEN [found |-> TRUE, stub |-> action_endpoint.stub_custom_actions[test_case_key]]
        ELSE IF test_file_key \in DOMAIN action_endpoint.stub_custom_actions
        THEN [found |-> TRUE, stub |-> action_endpoint.stub_custom_actions[test_file_key]]
        ELSE Unstubbed

\* faulty variant of ExecutorStub: an action without stub gets an empty stub
ExecutorStubWithDefault(action_name, looked_up) ==
    [raised |-> None, message |-> None, stub_custom_action |-> looked_up.stub]

\* E2EStubCustomActionExecutor.get_stub_custom_action, given what the lookup
\* returned (the message is written without the quotes around the name)
ExecutorStub(action_name, looked_up) ==
    IF looked_up.found
    THEN [raised |-> None, message |-> None, stub_custom_action |-> looked_up.stub]
    ELSE [raised |-> "RasaException",
          message |-> "Action " \o action_name \o " has not been stubbed.",
          stub_custom_action |-> Unstubbed.stub]

\* E2EStubCustomActionExecutor.__init__
E2EStubCustomActionExecutor(action_name, action_endpoint) ==
    [action_name |-> action_name, action_endpoint |-> action_endpoint]
        @@ ExecutorStub(action_name, get_stub_custom_action(action_endpoint, action_name))

\* E2EStubCustomActionExecutor.run: no request goes to the action endpoint
executor_run(self, t, dom) ==
    [response |-> as_dict(self.stub_custom_action), requests |-> <<>>]

StubTrackers == {EmptyTracker, update(EmptyTracker, ActionExecuted(ACTION_LISTEN_NAME))}

InitStub ==
    /\ tracker = EmptyTracker
    /\ domain = NoDomain
    /\ result = NoResult
    /\ pc = "idle"
    /\ inp \in EndpointConfigs
    /\ out = NoInput
    /\ log = <<>>
    /\ op = NoOp

\* the lookup alone, as the tests call it
GetStubCustomAction(action_name) ==
    /\ pc = "idle"
    /\ out' = [kind |-> "lookup", action_name |-> action_name]
                 @@ get_stub_custom_action(inp, action_name)
    /\ pc' = "looked_up"
    /\ UNCHANGED <<tracker, domain, result, inp, log, op>>

\* an executor is created for a custom action of the running test
CreateExecutor(action_name) ==
    /\ pc = "idle"
    /\ op' = [kind |-> "executor"] @@ E2EStubCustomActionExecutor(action_name, inp)
    /\ pc' = IF E2EStubCustomActionExecutor(action_name, inp).raised = None
             THEN "created" ELSE "failed"
    /\ UNCHANGED <<tracker, domain, result, inp, out, log>>

\* the executor is run for some tracker and domain
RunExecutor(t, dom) ==
    /\ pc \in {"created", "returned"}
    /\ out' = [kind |-> "stub_response", tracker |-> t, domain |-> dom]
                 @@ executor_run(op, t, dom)
    /\ pc' = "returned"
    /\ UNCHANGED <<tracker, domain, result, inp, log, op>>

\* the test goes on to its next step
NextStep ==
    /\ pc \in {"looked_up", "failed", "returned"}
    /\ pc' = "idle"
    /\ out' = NoInput
    /\ op' = NoOp
    /\ UNCHANGED <<tracker, domain, result, inp, log>>

NextStub ==
    \/ \E action_name \in StubbedActions \cup {"new_action"} :
           GetStubCustomAction(action_name)
    \/ \E action_name \in StubbedActions \cup {"new_action"} :
           CreateExecutor(action_name)
    \/ \E t \in StubTrackers, dom \in Domains \cup {NoDomain} : RunExecutor(t, dom)
    \/ NextStep

SpecStub == InitStub /\ [][NextStub]_vars

-----------------------------------------------------------------------------
(* Properties of the stub executor *)

\* the stubs registered for an action under either scope
StubsRegisteredFor(action_name) ==
    {inp.stub_custom_actions[key] :
        key \in {k \in DOMAIN inp.stub_custom_actions :
                    \E prefix \in {inp.test_file_name, inp.test_case_name} :
                        k = prefix \o "::" \o action_name}}

\* C23: creating the executor of an action without registered stub raises a
\* RasaException whose message names the action, and no run follows; the
\* executor of an action with a registered stub returns, for every tracker and
\* domain, the events and responses of a stub registered for that action and
\* sends no request
UnstubbedExecutorFailsFast ==
    op.kind = "executor" =>
        /\ op.raised = "RasaException" <=> StubsRegisteredFor(op.action_name) = {}
        /\ op.raised = "RasaException" =>
             /\ pc = "failed"
             /\ out = NoInput
             /\ op.message = "Action " \o op.action_name \o " has not been stubbed."
        /\ op.raised = None => op.stub_custom_action \in StubsRegisteredFor(op.action_name)
        /\ pc = "returned" =>
             /\ op.raised = None
             /\ out.requests = <<>>
             /\ \E stub \in StubsRegisteredFor(op.action_name) :
                    out.response = [events |-> stub.events, responses |-> stub.responses]

ExecutorOfUnstubbedActionFailedReached ==
    /\ pc = "failed"
    /\ op.kind = "executor"
    /\ op.raised = "RasaException"
    /\ op.action_name \in StubbedActions
    /\ DOMAIN inp.stub_custom_actions # {}

-----------------------------------------------------------------------------
(* Specification SpecConflicts: the story conflict detector and the
   validator's check of the story structure *)

\* bounds of the model
MaxStories == 2
MaxHistoryBound == 2

StoryUser(intent) == UserUttered([EmptyMessage EXCEPT !.intent = intent])

\* the story trackers the training data generator may produce
StoryTrackers ==
    {<<StoryUser("greet"), ActionExecuted("utter_greet"),
       StoryUser("affirm"), ActionExecuted("action_book")>>,
     <<StoryUser("greet"), ActionExecuted("utter_greet"),
       StoryUser("affirm"), ActionExecuted("action_cancel")>>,
     <<StoryUser("inform"), ActionExecuted("utter_greet"),
       StoryUser("affirm"), ActionExecuted("action_cancel")>>,
     <<StoryUser("greet"), SlotSet("cuisine", Scalar("thai")),
       ActionExecuted("utter_greet"),
       StoryUser("affirm"), ActionExecuted("action_cancel")>>,
     <<StoryUser("affirm"), ActionExecuted("action_book")>>,
     <<StoryUser("greet"), ActionExecuted("utter_greet")>>}

\* max_history: None or a number of turns
NoMaxHistory == [kind |-> "none", turns |-> 0]
MaxHistories ==
    {NoMaxHistory} \cup {[kind |-> "int", turns |-> n] : n \in 1..MaxHistoryBound}

\* the positions of the trackers that hold an executed action
ActionPositions(trackers) ==
    {p \in UNION {{<<t, k>> : k \in 1..Len(t)} : t \in trackers} :
        p[1][p[2]].event = "action"}

\* the last turns of a history, all of them when max_history is None
LastTurns(turns, max_history) ==
    IF max_history.kind = "none" \/ Len(turns) <= max_history.turns
    THEN turns
    ELSE SubSeq(turns, Len(turns) - max_history.turns + 1, Len(turns))

\* the fingerprint of the dialogue before position k of tracker t: the last
\* turns, the slots and the active loop
Fingerprint(t, k, max_history) ==
    [turns |-> LastTurns(SelectSeq(SubSeq(t, 1, k - 1),
                                   LAMBDA e : e.event \in {"user", "action"}),
                         max_history),
     slots |-> from_events(SubSeq(t, 1, k - 1)).slots,
     active_loop |-> from_events(SubSeq(t, 1, k - 1)).active_form.name]

\* the actions observed after a fingerprint across the trackers
NextActions(trackers, max_history, fingerprint) ==
    {p[1][p[2]].name :
        p \in {q \in ActionPositions(trackers) :
                  Fingerprint(q[1], q[2], max_history) = fingerprint}}

Fingerprints(trackers, max_history) ==
    {Fingerprint(p[1], p[2], max_history) : p \in ActionPositions(trackers)}

\* faulty variant of find_story_conflicts: a fingerprint observed more than
\* once is a conflict, whatever the actions that follow it
find_story_conflicts_by_occurrence(trackers, dom, max_history) ==
    {[fingerprint |-> f, actions |-> NextActions(trackers, max_history, f)] :
        f \in {g \in Fingerprints(trackers, max_history) :
                  Cardinality({q \in ActionPositions(trackers) :
                      Fingerprint(q[1], q[2], max_history) = g}) > 1}}

\* find_story_conflicts: the fingerprints followed by more than one action,
\* each with all the actions that follow it
find_story_conflicts(trackers, dom, max_history) ==
    {[fingerprint |-> f, actions |-> NextActions(trackers, max_history, f)] :
        f \in {g \in Fingerprints(trackers, max_history) :
                  Cardinality(NextActions(trackers, max_history, g)) > 1}}

\* faulty variant of verify_story_structure: conflicts fail the check even
\* when warnings are ignored
verify_story_structure_strict(trackers, dom, ignore_warnings, max_history) ==
    [raised |-> None,
     conflicts |-> find_story_conflicts(trackers, dom, max_history),
     returned |-> find_story_conflicts(trackers, dom, max_history) = {}]

\* Validator.verify_story_structure on the trackers generated from the story
\* graph: the conflicts are logged as warnings
verify_story_structure(trackers, dom, ignore_warnings, max_history) ==
    [raised |-> None,
     conflicts |-> find_story_conflicts(trackers, dom, max_history),
     returned |-> ignore_warnings \/ find_story_conflicts(trackers, dom, max_history) = {}]

InitConflicts ==
    /\ tracker = EmptyTracker
    /\ domain = NoDomain
    /\ result = NoResult
    /\ pc = "idle"
    /\ inp \in {[trackers |-> trackers, max_history |-> max_history] :
                   trackers \in {s \in SUBSET StoryTrackers :
                                    Cardinality(s) \in 1..MaxStories},
                   max_history \in MaxHistories}
    /\ out = NoInput
    /\ log = <<>>
    /\ op = NoOp

FindStoryConflicts ==
    /\ pc = "idle"
    /\ out' = [kind |-> "conflicts",
               conflicts |-> find_story_conflicts(inp.trackers, domain, inp.max_history)]
    /\ pc' = "found"
    /\ UNCHANGED <<tracker, domain, result, inp, log, op>>

VerifyStoryStructure(ignore_warnings) ==
    /\ pc \in {"idle", "found"}
    /\ out' = [kind |-> "verified", ignore_warnings |-> ignore_warnings]
                 @@ verify_story_structure(inp.trackers, domain, ignore_warnings,
                                           inp.max_history)
    /\ pc' = "verified"
    /\ UNCHANGED <<tracker, domain, result, inp, log, op>>

NextConflicts ==
    \/ FindStoryConflicts
    \/ \E ignore_warnings \in BOOLEAN : VerifyStoryStructure(ignore_warnings)

SpecConflicts == InitConflicts /\ [][NextConflicts]_vars

-----------------------------------------------------------------------------
(* Properties of the story conflict detector *)

\* two positions of the corpus share their fingerprint
SameFingerprint(p, q) ==
    Fingerprint(p[1], p[2], inp.max_history) = Fingerprint(q[1], q[2], inp.max_history)

\* position p competes with a position that shares its fingerprint and is
\* followed by another action
Competes(p) ==
    \E q \in ActionPositions(inp.trackers) :
        /\ SameFingerprint(p, q)
        /\ q[1][q[2]].name # p[1][p[2]].name

BookingStory ==
    <<StoryUser("greet"), ActionExecuted("utter_greet"),
      StoryUser("affirm"), ActionExecuted("action_book")>>

CancellingStory ==
    <<StoryUser("inform"), ActionExecuted("utter_greet"),
      StoryUser("affirm"), ActionExecuted("action_cancel")>>

\* C25: a conflict is reported for the fingerprint of a position exactly when
\* another position with that fingerprint is followed by a different action,
\* and the conflict lists every action that follows the fingerprint; two
\* stories that share their last two turns and go on with action_book and
\* action_cancel give, with max_history 2, one conflict listing both
ConflictIffDistinctNextActions ==
    out.kind = "conflicts" =>
        /\ \A p \in ActionPositions(inp.trackers) :
               /\ Competes(p) <=>
                    \E c \in out.conflicts :
                        c.fingerprint = Fingerprint(p[1], p[2], inp.max_history)
               /\ \A c \in out.conflicts :
                      c.fingerprint = Fingerprint(p[1], p[2], inp.max_history) =>
                          p[1][p[2]].name \in c.actions
        /\ \A c \in out.conflicts :
               /\ Cardinality(c.actions) > 1
               /\ \A a \in c.actions :
                      \E p \in ActionPositions(inp.trackers) :
                          /\ p[1][p[2]].name = a
                          /\ c.fingerprint = Fingerprint(p[1], p[2], inp.max_history)
               /\ \A d \in out.conflicts : d.fingerprint = c.fingerprint => d = c
        /\ (/\ inp.trackers = {BookingStory, CancellingStory}
            /\ inp.max_history = [kind |-> "int", turns |-> 2]) =>
               /\ Cardinality(out.conflicts) = 1
               /\ \A c \in out.conflicts :
                      /\ c.actions = {"action_book", "action_cancel"}
                      /\ c.fingerprint.turns
                           = <<ActionExecuted("utter_greet"), StoryUser("affirm")>>

SharedLastTurnsConflictReached ==
    /\ out.kind = "conflicts"
    /\ inp.trackers = {BookingStory, CancellingStory}
    /\ inp.max_history = [kind |-> "int", turns |-> 2]
    /\ out.conflicts # {}

\* C26: verify_story_structure raises nothing on conflicts and returns False
\* exactly when a conflict was found and ignore_warnings is False
StoryStructureCheckIsAdvisory ==
    out.kind = "verified" =>
        /\ out.raised = None
        /\ out.returned \in BOOLEAN
        /\ ~out.returned <=>
             /\ \E p \in ActionPositions(inp.trackers) : Competes(p)
             /\ ~out.ignore_warnings

ConflictFailsStrictCheckReached ==
    /\ out.kind = "verified"
    /\ ~out.ignore_warnings
    /\ out.conflicts # {}
    /\ ~out.returned

-----------------------------------------------------------------------------
(* Specification SpecConcurrent: two conversations whose runs of the form
   action interleave at the calls of the remote validation action. Each run
   writes the domain it is given into its FormAction instance and reads the
   form's configuration from there *)

Conversations == {1, 2}

\* the other form is active and destination is filled: activation validates
\* the pre-filled slot, the message is validated as well
SwitchingTracker ==
    from_events(<<Form(OtherForm.name), SlotSet("destination", Scalar("Rome")),
                  ActionExecuted(ACTION_LISTEN_NAME),
                  UserUttered(Message("inform", <<Entity("people", "2", None, None)>>,
                                      "for two"))>>)

\* the form is active and waits for the destination
AnsweringTracker ==
    from_events(<<Form(FormName), SlotSet(REQUESTED_SLOT, Scalar("destination")),
                  ActionExecuted(ACTION_LISTEN_NAME),
                  UserUttered(Message("inform", <<Entity("city", "Paris", None, None)>>,
                                      "to Paris"))>>)

\* the conversation just started
GreetingTracker ==
    from_events(<<ActionExecuted(ACTION_LISTEN_NAME),
                  UserUttered(Message("greet", <<>>, "hello"))>>)

ConcurrentTrackers == {SwitchingTracker, AnsweringTracker, GreetingTracker}

\* two domains with the remote validation action; the second one asks for the
\* number of people first
ConcurrentDomains ==
    {[is_none |-> FALSE, forms |-> <<OtherForm, RestaurantForm>>,
      action_names |-> {ACTION_LISTEN_NAME, FormName, ValidateName}],
     [is_none |-> FALSE,
      forms |-> <<[RestaurantForm EXCEPT !.config =
                      <<RestaurantForm.config[2], RestaurantForm.config[1]>>]>>,
      action_names |-> {ACTION_LISTEN_NAME, FormName, ValidateName}]}

ConcurrentResponses == {"accept", "clear", "cancel"}

\* faulty variant of InstanceOf: one FormAction instance serves both runs
SharedInstanceOf(conversation) == 1

\* the FormAction instance of a run: one is created for every run
InstanceOf(conversation) == conversation

\* FormAction.__init__
NewFormAction == [_form_name |-> FormName, _domain |-> NoDomain]

\* what run returns
Returned(r) == [raised |-> r.raised, events |-> r.events]

NotStarted(t, dom) ==
    [pc |-> "start", activation |-> _activate_if_required(t, dom, "accept"),
     validated_with |-> NoDomain, resp_a |-> "accept", resp_v |-> "accept",
     result |-> [raised |-> None, events |-> <<>>], met |-> FALSE]

\* run from the end of _activate_if_required to its next suspension or its
\* end; self_domain is what self._domain holds when the run goes on
AfterActivation(p, activation, self_domain) ==
    IF _validate_if_required(activation.given, self_domain, "accept").delegated
    THEN [p EXCEPT !.pc = "await_validation", !.activation = activation,
                   !.validated_with = self_domain]
    ELSE [p EXCEPT !.pc = "done", !.activation = activation,
                   !.result = Returned(RunValidated(self_domain, activation,
                                  _validate_if_required(activation.given, self_domain,
                                                        "accept")))]

\* the runs suspended at a remote call see the other conversation take a step
Meanwhile(procs, i, p) ==
    [j \in Conversations |->
        IF j = i THEN p
        ELSE IF procs[j].pc \in {"await_activation", "await_validation"}
        THEN [procs[j] EXCEPT !.met = TRUE]
        ELSE procs[j]]

InitConcurrent ==
    /\ tracker = EmptyTracker
    /\ domain = NoDomain
    /\ result = NoResult
    /\ pc = "idle"
    /\ inp \in {[trackers |-> trackers, domains |-> domains] :
                   trackers \in [Conversations -> ConcurrentTrackers],
                   domains \in [Conversations -> ConcurrentDomains]}
    /\ out = [i \in Conversations |-> NotStarted(inp.trackers[i], inp.domains[i])]
    /\ log = <<>>
    /\ op = [kind |-> "instances",
             instances |-> [i \in Conversations |-> NewFormAction]]

\* run up to its first suspension: self._domain is written, then the form is
\* activated if required
BeginRun(i) ==
    /\ out[i].pc = "start"
    /\ op' = [op EXCEPT !.instances[InstanceOf(i)]._domain = inp.domains[i]]
    /\ out' = Meanwhile(out, i,
                 IF out[i].activation.delegated
                 THEN [out[i] EXCEPT !.pc = "await_activation"]
                 ELSE AfterActivation(out[i], out[i].activation, inp.domains[i]))
    /\ UNCHANGED <<tracker, domain, result, pc, inp, log>>

\* the remote validation action answers for the pre-filled slots
ResumeActivation(i, resp) ==
    /\ out[i].pc = "await_activation"
    /\ out' = Meanwhile(out, i,
                 AfterActivation([out[i] EXCEPT !.resp_a = resp],
                     _activate_if_required(inp.trackers[i], inp.domains[i], resp),
                     op.instances[InstanceOf(i)]._domain))
    /\ UNCHANGED <<tracker, domain, result, pc, inp, log, op>>

\* the remote validation action answers for the extracted slots
ResumeValidation(i, resp) ==
    /\ out[i].pc = "await_validation"
    /\ out' = Meanwhile(out, i,
                 [out[i] EXCEPT
                     !.pc = "done", !.resp_v = resp,
                     !.result = Returned(RunValidated(
                         op.instances[InstanceOf(i)]._domain, out[i].activation,
                         _validate_if_required(out[i].activation.given,
                                               out[i].validated_with, resp)))])
    /\ UNCHANGED <<tracker, domain, result, pc, inp, log, op>>

NextConcurrent ==
    \/ \E i \in Conversations : BeginRun(i)
    \/ \E i \in Conversations, resp \in ConcurrentResponses : ResumeActivation(i, resp)
    \/ \E i \in Conversations, resp \in ConcurrentResponses : ResumeValidation(i, resp)

SpecConcurrent == InitConcurrent /\ [][NextConcurrent]_vars

-----------------------------------------------------------------------------
(* Properties of interleaved runs *)

-----------------------------------------------------------------------------
(* Properties of a form that finishes on the turn it is called *)

\* the run was called while the form was not active and found every required
\* slot set once the validation events are applied
FinishesImmediately ==
    /\ ActivatingRun
    /\ AllSlotsSetAfterValidation

\* C28: a run on a tracker where the form is not active that finds every
\* required slot set after validation returns the validation events followed
\* by the deactivation events (nothing more when the validation events already
\* hold Form(None)): Form(None) is returned, Form(<form name>) is not, and
\* the activation events, the SlotSet events of the pre-filled slots included,
\* are left out of what is returned
NoActivationEventsWhenFinishedAtOnce ==
    FinishesImmediately =>
        /\ InSeq(Form(None), result.events)
        /\ ~InSeq(Form(FormName), result.events)
        /\ result.activation_events # <<>>
        /\ result.activation_events[1] = Form(FormName)
        /\ Len(result.events) <= Len(result.validation_events) + Len(deactivate)
        /\ result.events =
               IF InSeq(Form(None), result.validation_events)
               THEN result.validation_events
               ELSE result.validation_events \o deactivate

PrefilledFormFinishedAtOnceReached ==
    /\ FinishesImmediately
    /\ Len(result.activation_events) >= 2
    /\ result.activation_events[2].event = "slot"
    /\ EndsWithDeactivation

-----------------------------------------------------------------------------
(* Properties of the tracker after a run of a form without validation action *)

\* the engine has just applied the events of a run that was not rejected
RunApplied ==
    /\ pc = "idle"
    /\ result.raised = None
    /\ tracker.events
         = result.before.events \o <<ActionExecuted(FormName)>> \o result.events

\* (a) the form is active and requested_slot names the first required slot,
\* in declared order, that is unset
FormWaitsForFirstUnsetSlot ==
    /\ tracker.active_form.name = FormName
    /\ UnsetSlots(tracker, required_slots(domain)) # {}
    /\ get_slot(tracker, REQUESTED_SLOT)
         = Scalar(FirstUnset(tracker, required_slots(domain)))

\* (b) no form is active and requested_slot is None
NoFormAndNothingRequested ==
    /\ tracker.active_form.name = None
    /\ get_slot(tracker, REQUESTED_SLOT) = NoneVal

\* C29: for a form without validation action, once the events of a run that
\* was not rejected are applied, either the form is active and requested_slot
\* names the first unset required slot, or no form is active and
\* requested_slot is None, and never both
FormActiveXorDone ==
    (RunApplied /\ ValidateName \notin domain.action_names) =>
        /\ FormWaitsForFirstUnsetSlot \/ NoFormAndNothingRequested
        /\ ~(FormWaitsForFirstUnsetSlot /\ NoFormAndNothingRequested)

SecondSlotAwaitedAfterRunReached ==
    /\ RunApplied
    /\ ValidateName \notin domain.action_names
    /\ FormWaitsForFirstUnsetSlot
    /\ get_slot(tracker, REQUESTED_SLOT) = Scalar("people")
    /\ result.slot_values # <<>>

-----------------------------------------------------------------------------
(* Specification SpecFilling: a conversation in which, once the form is
   active, every user message gives a value for the requested slot and the
   values are accepted as they are. SpecFillingFair adds that the conversation
   goes on while it can *)

\* bound of the model: the user messages of a conversation
MaxTurns == 5

\* a form with three required slots
FillingForm ==
    [name |-> FormName,
     config |-> RestaurantForm.config \o
        <<[slot |-> "cuisine",
           mappings |-> ListVal(<<
              Mapping("from_entity", "cuisine", <<>>, <<>>, None, None, NoneVal)>>)]>>]

FillingDomains ==
    {[is_none |-> FALSE, forms |-> <<form>>, action_names |-> names] :
        form \in {RestaurantForm, FillingForm},
        names \in {{ACTION_LISTEN_NAME, FormName},
                   {ACTION_LISTEN_NAME, FormName, ValidateName}}}

FillingMessages ==
    UserMessages \cup
    {Message("inform", <<Entity("cuisine", "thai", None, None)>>, "thai food"),
     Message("inform", <<Entity("city", "Paris", None, None),
                         Entity("cuisine", "thai", None, None)>>, "thai food in Paris")}

\* the message gives a value for the slot the form has requested
AnswersRequestedSlot(t, dom, m) ==
    /\ get_slot(t, REQUESTED_SLOT) # NoneVal
    /\ extract_requested_slot(dom, update(t, UserUttered(m))).values # <<>>

InitFilling ==
    /\ tracker = EmptyTracker
    /\ domain \in FillingDomains
    /\ result = NoResult
    /\ pc = "idle"
    /\ inp = NoInput
    /\ out = NoInput
    /\ log = <<>>
    /\ op = NoOp

\* the bot listens: at the start of the conversation and while the form is
\* active
FillingListen ==
    /\ pc = "idle"
    /\ tracker.latest_action_name # ACTION_LISTEN_NAME
    /\ tracker.events = <<>> \/ tracker.active_form.name = FormName
    /\ tracker' = update(tracker, ActionExecuted(ACTION_LISTEN_NAME))
    /\ UNCHANGED <<domain, result, pc, inp, out, log, op>>

\* the user says something; once the form is active, something that answers
\* what the form asked for
FillingMessage(m) ==
    /\ pc = "idle"
    /\ tracker.events # <<>>
    /\ tracker.events[Len(tracker.events)] = ActionExecuted(ACTION_LISTEN_NAME)
    /\ NumberOf(tracker.events, "user") < MaxTurns
    /\ tracker.active_form.name = FormName => AnswersRequestedSlot(tracker, domain, m)
    /\ tracker' = update(tracker, UserUttered(m))
    /\ pc' = "heard"
    /\ UNCHANGED <<domain, result, inp, out, log, op>>

\* the form runs on the message; the remote validation action, if there is
\* one, accepts the values as they are
FillingRun ==
    /\ pc = "heard"
    /\ result' = [before |-> tracker] @@ run(tracker, domain, "accept", "accept")
    /\ pc' = "ran"
    /\ UNCHANGED <<tracker, domain, inp, out, log, op>>

FillingLog ==
    /\ pc = "ran"
    /\ tracker' =
         IF result.raised = None
         THEN update_all(tracker, <<ActionExecuted(FormName)>> \o result.events)
         ELSE update(tracker, ActionExecutionRejected(FormName))
    /\ pc' = "idle"
    /\ UNCHANGED <<domain, result, inp, out, log, op>>

NextFilling ==
    \/ FillingListen
    \/ \E m \in FillingMessages : FillingMessage(m)
    \/ FillingRun
    \/ FillingLog

SpecFilling == InitFilling /\ [][NextFilling]_vars

\* the steps of FillingRun and of FillingLog, each enabled exactly when pc has
\* the value it starts from
RunStep == pc = "heard" /\ pc' = "ran"
LogStep == pc = "ran" /\ pc' = "idle"

\* the engine predicts and runs its actions without waiting and the user
\* answers: no step that stays possible is put off for ever
SpecFillingFair ==
    /\ SpecFilling
    /\ WF_vars(FillingListen)
    /\ WF_vars(\E m \in FillingMessages : FillingMessage(m))
    /\ WF_pc(RunStep)
    /\ WF_pc(LogStep)

-----------------------------------------------------------------------------
(* Properties of a conversation that answers every request of the form *)

\* where the form was last activated in the events, 0 if it never was
ActivationIndex(evts) ==
    IF \E k \in 1..Len(evts) : evts[k] = Form(FormName)
    THEN CHOOSE k \in 1..Len(evts) :
            /\ evts[k] = Form(FormName)
            /\ \A j \in (k + 1)..Len(evts) : evts[j] # Form(FormName)
    ELSE 0

\* the runs of the form logged after its activation
RunsAfterActivation(evts) ==
    {k \in (ActivationIndex(evts) + 1)..Len(evts) : evts[k] = ActionExecuted(FormName)}

\* the requests for a slot since the activation
RequestsSinceActivation(evts) ==
    {k \in ActivationIndex(evts)..Len(evts) :
        /\ k > 0
        /\ evts[k].event = "slot"
        /\ evts[k].name = REQUESTED_SLOT
        /\ evts[k].value # NoneVal}

FormIsActive == tracker.active_form.name = FormName

\* at most as many runs after the activation as the form has required slots,
\* and no slot requested twice
FillsWithinRequiredSlots ==
    ActivationIndex(tracker.events) > 0 =>
        /\ Cardinality(RunsAfterActivation(tracker.events))
             <= Len(required_slots(domain))
        /\ \A k \in RequestsSinceActivation(tracker.events) :
               /\ InSeq(tracker.events[k].value.items[1], required_slots(domain))
               /\ \A j \in RequestsSinceActivation(tracker.events) :
                      tracker.events[j].value = tracker.events[k].value => j = k

\* C30: when every user message after the activation gives a value for the
\* requested slot and the values are accepted unchanged, the form runs at
\* most as many times after its activation as it has required slots, requests
\* no slot twice, and is eventually deactivated
AnsweredFormIsEventuallyDeactivated ==
    /\ []FillsWithinRequiredSlots
    /\ FormIsActive ~> ~FormIsActive

EveryRequiredSlotAnsweredInTurnReached ==
    /\ ~FormIsActive
    /\ pc = "idle"
    /\ ActivationIndex(tracker.events) > 0
    /\ Len(required_slots(domain)) = 3
    /\ Cardinality(RunsAfterActivation(tracker.events)) = 3
    /\ Cardinality(RequestsSinceActivation(tracker.events)) = 3

-----------------------------------------------------------------------------
(* Properties of a rejected run *)

\* the engine has just logged the rejection of the run
RejectionApplied ==
    /\ pc = "idle"
    /\ Rejected
    /\ tracker.events = result.before.events \o <<ActionExecutionRejected(FormName)>>

\* C31: a run that validation rejects returns no events, neither the
\* activation event nor a SlotSet, and leaves the tracker as it was; once the
\* engine has logged the rejection, the slots (requested_slot among them), the
\* name of the active form and its validate flag are what they were before
\* the run
RejectedRunProducesNoEvents ==
    /\ (pc = "ran" /\ Rejected) =>
          /\ result.events = <<>>
          /\ result.validation_events = <<>>
          /\ tracker = result.before
    /\ RejectionApplied =>
          /\ tracker.slots = result.before.slots
          /\ get_slot(tracker, REQUESTED_SLOT) = get_slot(result.before, REQUESTED_SLOT)
          /\ tracker.active_form.name = result.before.active_form.name
          /\ tracker.active_form.validate = result.before.active_form.validate
          /\ tracker.latest_message = result.before.latest_message

RejectedRunLoggedReached ==
    /\ RejectionApplied
    /\ result.activation_events = <<>>
    /\ tracker.active_form.name = FormName
    /\ Truthy(get_slot(tracker, REQUESTED_SLOT))
    /\ tracker.slots["destination"] # NoneVal
    /\ tracker.active_form.rejected = PyTrue

\* the run would have activated the form, and is rejected
RejectedOnActivationReached ==
    /\ RejectionApplied
    /\ result.activation_events # <<>>
    /\ result.activation_events[1] = Form(FormName)
    /\ tracker.active_form.name # FormName

-----------------------------------------------------------------------------
(* Properties of the slots that are filled without being requested *)

\* the slot values the resolver run has extracted, none if it raised
ExtractedValues ==
    IF out.kind = "other" /\ out.raised = None THEN out.values
    ELSE IF out.kind = "validated" /\ out.raised = None THEN out.slot_values
    ELSE <<>>

\* the mapping gives the value through an entity of the message, or through
\* the trigger intent while the form is not active
FillsUnrequested(mapping, slot, value, t) ==
    /\ intent_is_desired(mapping, t)
    /\ \/ /\ mapping.type = "from_entity"
          /\ value = get_entity_value(mapping.entity, t, mapping.role, mapping.group)
       \/ /\ mapping.type = "from_trigger_intent"
          /\ t.active_form.name # FormName
          /\ value = mapping.value

\* some mapping of the slot fills it with the value without the slot being
\* requested
FilledUnrequested(mappings, slot, value, t) ==
    \E j \in 1..Len(mappings) : FillsUnrequested(mappings[j], slot, value, t)

UnrequestedFrom(values, dom, t) ==
    \A k \in 1..Len(values) :
        values[k].slot # inp.requested =>
            /\ values[k].value # NoneVal
            /\ FilledUnrequested(get_mappings_for_slot(dom, values[k].slot).mappings,
                                 values[k].slot, values[k].value, t)

\* C32: a value extracted for a required slot other than the requested one
\* comes from a from_entity mapping of that slot, or from a from_trigger_intent
\* mapping while the form is not active; an intent or text mapping never
\* fills such a slot, whether its intent conditions match or not
UnrequestedSlotsOnlyFromEntities ==
    ExtractedValues # <<>> =>
        UnrequestedFrom(ExtractedValues, ResolveDomain(inp), ResolveTracker(inp))

\* cuisine is requested; the intent mapping of destination matches the message
\* and comes first, yet destination takes the city of the message
IntentMappingPassedOverReached ==
    /\ out.kind = "other"
    /\ inp.requested = "cuisine"
    /\ inp.active = FormName
    /\ Len(inp.mappings) = 2
    /\ inp.mappings[1].type = "from_intent"
    /\ intent_is_desired(inp.mappings[1], ResolveTracker(inp))
    /\ inp.mappings[2].type = "from_entity"
    /\ ExtractedValues = <<[slot |-> "destination", value |-> Scalar("Rome")]>>

-----------------------------------------------------------------------------
(* Properties of the activation turn when no form is active *)

\* the run starts on a tracker without active form: the validate flag is missing
RunFromNoForm ==
    /\ pc = "ran"
    /\ result.before.active_form.name = None

\* what validate extracts from the latest message of the tracker
ExtractedFrom(t) ==
    IF Truthy(get_slot(t, REQUESTED_SLOT))
    THEN DictUpdate(extract_other_slots(domain, t).values,
                    extract_requested_slot(domain, t).values)
    ELSE extract_other_slots(domain, t).values

-----------------------------------------------------------------------------
(* Properties of forking the conversation *)

\* the user chose a user message to fork before
ForkedBeforeMessage == op.kind = "fork" /\ op.fork_idx # 0

\* the events before the chosen user message, among those since the previous
\* restart
KeptEvents == SubSeq(RetrieveAfterRestart(op.before), 1, op.fork_idx - 1)

\* C36: forking before a chosen user message appends Restarted and then the
\* events since the previous restart that preceded the chosen message, in
\* their order: the events after the latest restart are exactly these, the
\* chosen message and what followed it are not among them
ForkResetsToChosenMessage ==
    ForkedBeforeMessage =>
        /\ RetrieveAfterRestart(op.before)[op.fork_idx].event = "user"
        /\ IsPrefix(op.before, log)
        /\ Added = <<Restarted>> \o KeptEvents
        /\ RetrieveAfterRestart(log) = KeptEvents
        /\ Len(RetrieveAfterRestart(log)) = op.fork_idx - 1
        /\ \A k \in 1..Len(KeptEvents) : KeptEvents[k].event # "restart"

\* the fork is before the second user message: the first one and the bot's
\* action are sent again, the second message is not
ForkedBeforeSecondMessageReached ==
    /\ ForkedBeforeMessage
    /\ op.fork_idx = 3
    /\ LastRestart(op.before, Len(op.before)) > 0
    /\ RetrieveAfterRestart(log)[1].event = "user"
    /\ RetrieveAfterRestart(log)[2].event = "action"
    /\ RetrieveAfterRestart(op.before)[3]
         = UserUttered(Message("inform", <<Entity("city", "Paris", None, None)>>,
                               "to Paris"))

-----------------------------------------------------------------------------
(* Properties of undoing the latest step *)

\* the place of the most recent ActionExecuted, UserUttered or Restarted event
\* of the log, 0 if it has none
LatestStep(events) ==
    IF \E k \in 1..Len(events) : events[k].event \in {"action", "user", "restart"}
    THEN CHOOSE k \in 1..Len(events) :
            /\ events[k].event \in {"action", "user", "restart"}
            /\ \A j \in (k + 1)..Len(events) :
                  events[j].event \notin {"action", "user", "restart"}
    ELSE 0

LatestStepType(events) ==
    IF LatestStep(events) = 0 THEN None ELSE events[LatestStep(events)].event

\* C34: undo looks in the whole log for the most recent ActionExecuted,
\* UserUttered or Restarted event: for an ActionExecuted it appends one
\* ActionReverted, for a UserUttered it appends UserUtteranceReverted and then
\* ActionExecuted(action_listen), for a Restarted or when there is no such
\* event it appends nothing
UndoRevertsLatestStep ==
    op.kind = "undo" =>
        /\ log = op.before \o Added
        /\ LatestStepType(op.before) = "action" => Added = <<ActionReverted>>
        /\ LatestStepType(op.before) = "user" =>
             Added = <<UserUtteranceReverted, ActionExecuted(ACTION_LISTEN_NAME)>>
        /\ LatestStepType(op.before) \in {"restart", None} => Added = <<>>

\* undo right after a fork before the first user message: the scan stops at
\* Restarted although a user message lies before it
UndoStoppedAtRestartReached ==
    /\ op.kind = "undo"
    /\ LatestStepType(op.before) = "restart"
    /\ \E k \in 1..Len(op.before) : op.before[k].event = "user"
    /\ log = op.before

-----------------------------------------------------------------------------
(* Properties of the conversation after an undone message or a restart *)

\* the operation undid a user message, or restarted the conversation
MessageUndone == op.kind = "undo" /\ LatestStepType(op.before) = "user"
ConversationRestarted == op.kind = "restart"

\* C35: undoing a user message appends UserUtteranceReverted and restarting
\* appends Restarted, each followed at once by ActionExecuted(action_listen):
\* on the applied events of the resulting log, is_listening_for_message holds
ListeningAfterUndoOrRestart ==
    /\ MessageUndone =>
         /\ Added = <<UserUtteranceReverted, ActionExecuted(ACTION_LISTEN_NAME)>>
         /\ is_listening_for_message(log)
    /\ ConversationRestarted =>
         /\ Added = <<Restarted, ActionExecuted(ACTION_LISTEN_NAME)>>
         /\ RetrieveApplied(log) = <<ActionExecuted(ACTION_LISTEN_NAME)>>
         /\ is_listening_for_message(log)

\* the second user message is undone: the bot was not listening before, it is
\* after, and the first message is still applied
SecondMessageUndoneReached ==
    /\ MessageUndone
    /\ ~is_listening_for_message(op.before)
    /\ is_listening_for_message(log)
    /\ Len(RetrieveApplied(log)) >= 3
    /\ RetrieveApplied(log)[1].event = "user"

-----------------------------------------------------------------------------
(* Specification SpecLoop: the interactive-learning client confirming or
   correcting the predicted actions of a conversation in which a loop (a
   form) may be active *)

\* bound of the model: the length of the server's event log
MaxLoopLog == 5

LoopActions == {ACTION_LISTEN_NAME, FormName, "utter_greet"}

\* the conversation when the session starts: new, or the form was activated
\* (and then rejected) and the bot listens
LoopLogs ==
    {<<>>,
     <<Form(FormName), ActionExecuted(ACTION_LISTEN_NAME)>>,
     <<Form(FormName), ActionExecutionRejected(FormName),
       ActionExecuted(ACTION_LISTEN_NAME)>>}

\* retrieve_tracker with EventVerbosity.AFTER_RESTART: the state of the tracker
LoopTracker(events) == from_events(RetrieveAfterRestart(events))

_form_is_rejected(action_name, t) ==
    /\ t.active_form.name # None
    /\ action_name # t.active_form.name
    /\ action_name # ACTION_LISTEN_NAME

_form_is_restored(action_name, t) ==
    /\ t.active_form.rejected = PyTrue
    /\ t.latest_action_name = ACTION_LISTEN_NAME
    /\ action_name = t.active_form.name

\* the event _confirm_form_validation sends, if any; validate_input is the
\* user's answer
_confirm_form_validation(t, validate_input) ==
    IF ~validate_input THEN <<FormValidation(PyFalse)>>
    ELSE IF t.active_form.validate # PyTrue THEN <<FormValidation(PyTrue)>>
    ELSE <<>>

\* what _validate_action sends before it logs the action
NotificationEvents(action_name, t, validate_input) ==
    IF _form_is_rejected(action_name, t)
    THEN <<ActionExecutionRejected(t.active_form.name)>>
    ELSE IF _form_is_restored(action_name, t)
    THEN _confirm_form_validation(t, validate_input)
    ELSE <<>>

\* faulty variant of _validate_action: the action is logged first, the tracker
\* is notified afterwards
_validate_action_logging_first(events, action_name, prediction, is_correct, is_new_action, fails, validate_input) ==
    [send_action(events, action_name,
                 IF is_correct THEN prediction.policy ELSE None,
                 IF is_correct THEN prediction.confidence ELSE None,
                 ~is_correct /\ is_new_action, fails)
        EXCEPT !.events = send_event(@, NotificationEvents(action_name,
                                            LoopTracker(events), validate_input))]

\* _validate_action once the user confirmed the prediction (is_correct) or
\* chose action_name instead
_validate_action(events, action_name, prediction, is_correct, is_new_action, fails, validate_input) ==
    send_action(send_event(events, NotificationEvents(action_name,
                                       LoopTracker(events), validate_input)),
                action_name,
                IF is_correct THEN prediction.policy ELSE None,
                IF is_correct THEN prediction.confidence ELSE None,
                ~is_correct /\ is_new_action, fails)

InitLoop ==
    /\ tracker = EmptyTracker
    /\ domain = NoDomain
    /\ result = NoResult
    /\ pc = "idle"
    /\ inp = NoInput
    /\ out = NoInput
    /\ log \in LoopLogs
    /\ op = [kind |-> "none", before |-> <<>>, raised |-> None]

\* record_messages: the user enters a message when the bot listens
LoopUserMessage(m) ==
    /\ pc = "idle"
    /\ Len(log) < MaxLoopLog
    /\ is_listening_for_message(log)
    /\ log' = send_event(log, <<UserUttered(m)>>)
    /\ op' = [kind |-> "message", before |-> log, raised |-> None]
    /\ UNCHANGED <<tracker, domain, result, pc, inp, out>>

\* _predict_till_next_listen: one predicted action is confirmed or corrected
ValidateActionSent(sent, action_name, is_correct, is_new_action, fails) ==
    /\ log' = sent.events
    /\ op' = [kind |-> "validate_action", before |-> log, raised |-> sent.raised,
              name |-> action_name, is_correct |-> is_correct,
              is_new_action |-> ~is_correct /\ is_new_action, fails |-> fails,
              loop |-> LoopTracker(log).active_form.name]
    /\ pc' = AfterOperation(sent.raised)

ValidateAction(action_name, prediction, is_correct, is_new_action, fails, validate_input) ==
    /\ pc = "idle"
    /\ Len(log) < MaxLoopLog
    /\ ~is_listening_for_message(log)
    /\ is_correct => prediction.policy # None /\ ~is_new_action
    /\ is_new_action => action_name = "utter_greet"
    /\ ValidateActionSent(_validate_action(log, action_name, prediction, is_correct,
                                           is_new_action, fails, validate_input),
                          action_name, is_correct, is_new_action, fails)
    /\ UNCHANGED <<tracker, domain, result, inp, out>>

NextLoop ==
    \/ \E m \in InteractiveMessages : LoopUserMessage(m)
    \/ \E action_name \in LoopActions, prediction \in Predictions,
          is_correct \in BOOLEAN, is_new_action \in BOOLEAN, fails \in BOOLEAN,
          validate_input \in BOOLEAN :
            ValidateAction(action_name, prediction, is_correct, is_new_action,
                           fails, validate_input)

SpecLoop == InitLoop /\ [][NextLoop]_vars

-----------------------------------------------------------------------------
(* Properties of an action chosen against the active loop *)

\* a loop is active and the action is neither the loop's own nor action_listen
LoopRejected ==
    /\ op.kind = "validate_action"
    /\ op.loop # None
    /\ op.name # op.loop
    /\ op.name # ACTION_LISTEN_NAME

\* the chosen action is the last event of the log
ActionLoggedLast ==
    /\ Added # <<>>
    /\ Added[Len(Added)].event = "action"
    /\ Added[Len(Added)].name = op.name

\* C37 as stated: when the action goes against the active loop, the rejection
\* naming the loop is sent and then the action is logged
RejectionThenActionAlwaysLogged ==
    LoopRejected =>
        /\ Len(Added) = 2
        /\ Added[1] = ActionExecutionRejected(op.loop)
        /\ ActionLoggedLast

\* C37: when the action goes against the active loop, the rejection naming
\* the loop is the first event sent; the action is logged right after it,
\* unless the request to execute an action that is not new fails: then the
\* rejection stays in the log, no action is logged and the error reaches the
\* caller. No rejection is sent for the loop's own action, for action_listen
\* or when no loop is active
RejectionSentBeforeAction ==
    /\ LoopRejected =>
         /\ Added # <<>>
         /\ Added[1] = ActionExecutionRejected(op.loop)
         /\ IF op.fails /\ ~op.is_new_action
            THEN /\ Added = <<ActionExecutionRejected(op.loop)>>
                 /\ op.raised = "ClientError"
                 /\ pc = "failed"
            ELSE /\ Len(Added) = 2
                 /\ ActionLoggedLast
                 /\ op.raised = None
    /\ (op.kind = "validate_action" /\ ~LoopRejected) =>
         \A k \in 1..Len(Added) : Added[k].event # "action_execution_rejected"

\* the user replaced the prediction by utter_greet while the form was active
RejectionAndChosenActionLoggedReached ==
    /\ LoopRejected
    /\ ~op.is_correct
    /\ op.name = "utter_greet"
    /\ op.before[Len(op.before)].event = "user"
    /\ Added = <<ActionExecutionRejected(FormName), ActionExecuted("utter_greet")>>
    /\ LoopTracker(log).active_form.rejected = PyTrue

-----------------------------------------------------------------------------
(* Specification SpecWait: wait_til_server_is_running polling the status of
   the server *)

\* bounds of the model: the retry budget of a call, and how many responses
\* reporting not-ready one call sees
MaxRetries == 3
MaxNotReady == 3

\* what retrieve_status gives: a response with is_ready true or false, or a
\* ClientError
StatusResponses == {"ready", "not_ready", "ClientError"}

HowMany(responses, r) ==
    Cardinality({k \in 1..Len(responses) : responses[k] = r})

\* the loop is left with the value to return, or goes on with the retries left
Returning(value) == [max_retries |-> 0, returned |-> TRUE, value |-> value]
Looping(max_retries) ==
    IF max_retries = 0 THEN Returning(FALSE)
    ELSE [max_retries |-> max_retries, returned |-> FALSE, value |-> FALSE]

\* faulty variant of WaitIteration: a response reporting not-ready uses up a
\* retry as a failed request does
WaitIterationCountingNotReady(max_retries, r) ==
    IF r = "ready" THEN Returning(TRUE) ELSE Looping(max_retries - 1)

\* one pass of the while loop, on the outcome r of retrieve_status, followed by
\* the test of the loop condition
WaitIteration(max_retries, r) ==
    IF r = "ClientError" THEN Looping(max_retries - 1)
    ELSE IF r = "not_ready" THEN Looping(max_retries)
    ELSE Returning(TRUE)

InitWait ==
    /\ tracker = EmptyTracker
    /\ domain = NoDomain
    /\ result = NoResult
    /\ pc = "idle"
    /\ inp \in {[max_retries |-> n] : n \in 0..MaxRetries}
    /\ out = NoInput
    /\ log = <<>>
    /\ op = NoOp

\* wait_til_server_is_running is called: the loop condition is tested for the
\* first time
CallWait ==
    /\ pc = "idle"
    /\ out' = Looping(inp.max_retries)
    /\ pc' = IF Looping(inp.max_retries).returned THEN "returned" ELSE "waiting"
    /\ UNCHANGED <<tracker, domain, result, inp, log, op>>

\* the status request is answered, or fails
StatusAnswered(r) ==
    /\ pc = "waiting"
    /\ r = "not_ready" => HowMany(log, "not_ready") < MaxNotReady
    /\ out' = WaitIteration(out.max_retries, r)
    /\ log' = Append(log, r)
    /\ pc' = IF WaitIteration(out.max_retries, r).returned THEN "returned" ELSE "waiting"
    /\ UNCHANGED <<tracker, domain, result, inp, op>>

NextWait ==
    \/ CallWait
    \/ \E r \in StatusResponses : StatusAnswered(r)

SpecWait == InitWait /\ [][NextWait]_vars

-----------------------------------------------------------------------------
(* Properties of waiting for the server *)

\* C38: wait_til_server_is_running returns True at the first response that
\* reports is_ready, and returns False exactly when max_retries status
\* requests have failed and no response was ready; a response reporting
\* not-ready uses up no retry and never makes the call return
WaitReturnsReadyOrExhausted ==
    /\ pc = "waiting" =>
         /\ HowMany(log, "ready") = 0
         /\ HowMany(log, "ClientError") < inp.max_retries
         /\ out.max_retries = inp.max_retries - HowMany(log, "ClientError")
    /\ pc = "returned" =>
         /\ out.returned
         /\ out.value <=>
              /\ log # <<>>
              /\ log[Len(log)] = "ready"
              /\ HowMany(log, "ready") = 1
              /\ HowMany(log, "ClientError") < inp.max_retries
         /\ ~out.value <=>
              /\ HowMany(log, "ClientError") = inp.max_retries
              /\ HowMany(log, "ready") = 0
              /\ log # <<>> => log[Len(log)] = "ClientError"

\* the server was reached before it was ready, requests failed in between, and
\* the last of the retries gave out
RetriesExhaustedDespiteNotReadyReached ==
    /\ pc = "returned"
    /\ ~out.value
    /\ inp.max_retries = 2
    /\ HowMany(log, "not_ready") >= 2
    /\ log[1] = "not_ready"
    /\ log[Len(log) - 1] = "not_ready"

====
